---- MODULE Spec2Model ----
(***************************************************************************)
(* halifax-meetings: the relational store set up by initDB, the meeting    *)
(* save transaction (saveMeeting, saveMeetingURLs) and the external        *)
(* content pipeline (processExternalContentURLs, processURL).              *)
(*                                                                         *)
(* A table is the sequence of its rows in rowid order (no statement of the *)
(* program deletes a row, so a row's rowid is its position).  Statements   *)
(* issued on a transaction act on tx.s, a working copy of the store that   *)
(* replaces db at commit and is dropped at rollback; statements issued on  *)
(* the connection itself (db.Exec) act on db.  The program is single       *)
(* threaded and is the store's only writer: one call is in flight at a     *)
(* time, described by the frame `call`.                                    *)
(*                                                                         *)
(* Times are counted in milliseconds since an epoch > 0, the resolution of *)
(* timeFormat; the Go zero time is ZeroTime.  Where durations matter       *)
(* (isMeetingFresh, the cutoff of processMeetings) the unit is the minute. *)
(*                                                                         *)
(* Spec: saveMeeting calls and pipeline runs on one store.  SpecPDF: the   *)
(* extraction cascade of processPDF.  SpecFresh: isMeetingFresh.  SpecID:  *)
(* the meeting ID Client.List derives.  SpecCrawl: crawl runs of           *)
(* processMeetings, which list the sources and save through saveMeeting,   *)
(* and pipeline runs on the store they fill.  SpecBacklog: the pipeline    *)
(* invoked again and again on a store with a backlog, with fairness.       *)
(***************************************************************************)
EXTENDS Integers, Sequences, FiniteSets, TLC

VARIABLES
    db,       \* the committed store: one field per table of initDB
    tx,       \* the open transaction (its working copy of the store), or NoTx
    call,     \* frame of the call in flight, or of the last call once it returned
    now,      \* the wall clock, time.Now()
    run,      \* the pipeline run or the crawl run in progress, or NoRun
    calls     \* number of saveMeeting calls committed and pipeline runs begun so far

vars == <<db, tx, call, now, run, calls>>

----------------------------------------------------------------------------
(* Bounds of the model *)

\* no call starts once MaxCalls saveMeeting calls have committed and pipeline
\* runs have read their backlog
MaxCalls == 3

----------------------------------------------------------------------------
(* Values *)

\* SQL NULL in a text column
NULL == "NULL"

\* time.Time{}: the zero time, for which IsZero() holds
ZeroTime == 0

\* SQL NULL in a datetime or integer column
NullNum == -1

\* timeValue.Value: the zero time is stored as NULL, any other time as its
\* timeFormat text, which orders as the time does and keeps the time down to
\* the millisecond: the clock of the model moves in whole ticks, none finer
timeValue_Value(t) == IF t = ZeroTime THEN NullNum ELSE t

\* timeValue.Scan: NULL reads back as the zero time
timeValue_Scan(v) == IF v = NullNum THEN ZeroTime ELSE v

\* base62(sha224(bytes)): collision free on the inputs of the model
Sum224(bytes) == "sha224(" \o bytes \o ")"

\* Meeting.URL: the URL of the first entry named `name`, "" when there is none
RECURSIVE URL(_, _)
URL(urls, name) ==
    IF urls = <<>> THEN ""
    ELSE IF Head(urls).Name = name THEN Head(urls).URL
    ELSE URL(Tail(urls), name)

----------------------------------------------------------------------------
(* Inputs: what the sources and the document host may answer *)

\* a listed meeting: its agenda URL is the one its ID derives from
ListedMeeting(id, note) ==
    [ID |-> id, Type |-> "Regional Council",
     Event |-> [Date |-> 1, Note |-> note],
     URLs |-> <<[Name |-> "agenda", URL |-> "agenda/" \o id],
                [Name |-> "video", URL |-> "video/" \o id]>>]

\* a listed meeting that has no agenda link (yet)
NoAgendaMeeting(id) ==
    [ID |-> id, Type |-> "Regional Council",
     Event |-> [Date |-> 1, Note |-> ""],
     URLs |-> <<[Name |-> "video", URL |-> "video/" \o id]>>]

\* MeetingAgenda values an Agenda call may return.  A1b renders the HTML of A1
\* to another text; A2 links u1 twice.
A1 == [ContentHTML |-> "h1", ContentText |-> "t1", ContentURLs |-> <<"u1">>]
A1b == [ContentHTML |-> "h1", ContentText |-> "t1b", ContentURLs |-> <<"u1">>]
A2 == [ContentHTML |-> "h2", ContentText |-> "t2", ContentURLs |-> <<"u1", "u2", "u1">>]

\* the (meeting, agenda) pairs saveMeeting is called with: two meetings that
\* may publish the same agenda, a meeting whose note and agenda change and
\* change back, and a meeting without agenda link
SaveInputs ==
    { <<ListedMeeting("m1", ""), A1>>,
      <<ListedMeeting("m1", ""), A1b>>,
      <<ListedMeeting("m1", ""), A2>>,
      <<ListedMeeting("m1", "rescheduled"), A1>>,
      <<ListedMeeting("m2", ""), A1>>,
      <<NoAgendaMeeting("m2"), A1>> }

----------------------------------------------------------------------------
(* The store *)

\* initDB: every table is created empty
initDB ==
    [ meeting_agenda_content        |-> <<>>,
      meeting_agenda_content_search |-> <<>>,
      meetings                      |-> <<>>,
      meeting_versions              |-> <<>>,
      external_content              |-> <<>>,
      external_content_search       |-> <<>>,
      external_content_urls         |-> <<>>,
      meeting_external_content_urls |-> <<>> ]

NoTx == [open |-> FALSE]

Rows(t) == {t[i] : i \in DOMAIN t}

\* a row conflicts with a PRIMARY KEY or UNIQUE constraint over the columns
\* `key` when a stored row agrees with it on all of them (the program binds Go
\* strings to every key column, so no key holds a NULL)
Conflicts(t, row, key) ==
    \E i \in DOMAIN t : \A c \in key : t[i][c] = row[c]

\* insert ... on conflict do nothing
InsertOrIgnore(t, row, key) ==
    IF Conflicts(t, row, key) THEN t ELSE Append(t, row)

\* select rowid from <table> where id=?  (0: no such row, the subquery is NULL)
RowidOf(t, id) ==
    IF \E i \in DOMAIN t : t[i].id = id
    THEN CHOOSE i \in DOMAIN t : t[i].id = id /\ \A j \in 1..(i - 1) : t[j].id # id
    ELSE 0

SetMax(S) == CHOOSE x \in S : \A y \in S : y <= x

\* select max(col): NULL over no rows
MaxOf(S) == IF S = {} THEN NullNum ELSE SetMax(S)

----------------------------------------------------------------------------
(* saveMeeting: its statements, as functions of the transaction's store *)

\* mutant: the unique constraint of meeting_versions also covers observed
VersionKey_WithObserved ==
    {"meeting_id", "observed", "schedule_note", "agenda_url", "minutes_url",
     "video_url", "agenda_content_id"}

\* unique (meeting_id, schedule_note, agenda_url, minutes_url, video_url,
\* agenda_content_id) of meeting_versions
VersionKey == {"meeting_id", "schedule_note", "agenda_url", "minutes_url",
               "video_url", "agenda_content_id"}

\* mutant: cq overwrites the stored row on conflict
InsertAgendaContent_Upsert(s, contentID, agenda) ==
    LET t == s.meeting_agenda_content
        new == [id |-> contentID, text |-> agenda.ContentText,
                html |-> agenda.ContentHTML]
    IN  [s EXCEPT !.meeting_agenda_content =
            IF Conflicts(t, new, {"id"})
            THEN [i \in DOMAIN t |-> IF t[i].id = contentID THEN new ELSE t[i]]
            ELSE Append(t, new)]

\* cq: insert into meeting_agenda_content ... on conflict (id) do nothing
InsertAgendaContent(s, contentID, agenda) ==
    [s EXCEPT !.meeting_agenda_content =
        InsertOrIgnore(@, [id |-> contentID, text |-> agenda.ContentText,
                           html |-> agenda.ContentHTML], {"id"})]

\* sq: insert into meeting_agenda_content_search (rowid, text)
InsertAgendaContentSearch(s, contentID, agenda) ==
    [s EXCEPT !.meeting_agenda_content_search =
        Append(@, [rowid |-> RowidOf(s.meeting_agenda_content, contentID),
                   text |-> agenda.ContentText])]

\* mutant: on conflict the meetings row is left as it is
UpsertMeeting_InsertOnly(s, m, contentID) ==
    [s EXCEPT !.meetings =
        InsertOrIgnore(@, [id |-> m.ID, type |-> m.Type, date |-> m.Event.Date,
                           schedule_note |-> m.Event.Note,
                           last_observed |-> NullNum, updated |-> NullNum,
                           agenda_url |-> URL(m.URLs, "agenda"),
                           minutes_url |-> URL(m.URLs, "minutes"),
                           video_url |-> URL(m.URLs, "video"),
                           agenda_content_id |-> contentID], {"id"})]

\* mq: insert into meetings ... ON CONFLICT (id) DO UPDATE SET ...
UpsertMeeting(s, m, contentID) ==
    LET new == [id |-> m.ID, type |-> m.Type, date |-> m.Event.Date,
                schedule_note |-> m.Event.Note,
                last_observed |-> NullNum, updated |-> NullNum,
                agenda_url |-> URL(m.URLs, "agenda"),
                minutes_url |-> URL(m.URLs, "minutes"),
                video_url |-> URL(m.URLs, "video"),
                agenda_content_id |-> contentID]
        t == s.meetings
    IN  [s EXCEPT !.meetings =
            IF Conflicts(t, new, {"id"})
            THEN [i \in DOMAIN t |->
                    IF t[i].id = m.ID
                    THEN [new EXCEPT !.last_observed = t[i].last_observed,
                                     !.updated = t[i].updated]
                    ELSE t[i]]
            ELSE Append(t, new)]

\* the row vq inserts
VersionRow(m, observed, contentID) ==
    [meeting_id |-> m.ID,
     observed |-> timeValue_Value(observed),
     schedule_note |-> m.Event.Note,
     agenda_url |-> URL(m.URLs, "agenda"),
     minutes_url |-> URL(m.URLs, "minutes"),
     video_url |-> URL(m.URLs, "video"),
     agenda_content_id |-> contentID]

\* mutant: vq on a table without the unique constraint
InsertMeetingVersion_NoConstraint(s, m, observed, contentID) ==
    [s EXCEPT !.meeting_versions = Append(@, VersionRow(m, observed, contentID))]

\* vq: insert into meeting_versions ... on conflict do nothing
InsertMeetingVersion(s, m, observed, contentID) ==
    [s EXCEPT !.meeting_versions =
        InsertOrIgnore(@, VersionRow(m, observed, contentID), VersionKey)]

\* mutant: last_observed is taken from the versions, as updated is
UpdateMeetingObserved_FromVersions(s, id, observed) ==
    LET t == s.meetings
        versionsOf(mid) == {v \in Rows(s.meeting_versions) : v.meeting_id = mid}
    IN  [s EXCEPT !.meetings =
            [i \in DOMAIN t |->
                IF t[i].id = id
                THEN [t[i] EXCEPT
                        !.updated = MaxOf({v.observed : v \in versionsOf(t[i].id)}),
                        !.last_observed = MaxOf({v.observed : v \in versionsOf(t[i].id)})]
                ELSE t[i]]]

\* mutant: the subquery is not correlated, max(observed) runs over every meeting
UpdateMeetingObserved_AllMeetings(s, id, observed) ==
    LET t == s.meetings
    IN  [s EXCEPT !.meetings =
            [i \in DOMAIN t |->
                IF t[i].id = id
                THEN [t[i] EXCEPT
                        !.updated = MaxOf({v.observed : v \in Rows(s.meeting_versions)}),
                        !.last_observed = timeValue_Value(observed)]
                ELSE t[i]]]

\* lq: update meetings set updated=(select max(observed) from meeting_versions
\* where meeting_id=id), last_observed=? where id=?
\* (meeting_versions has no column id: the subquery's id is meetings.id)
UpdateMeetingObserved(s, id, observed) ==
    LET t == s.meetings
        versionsOf(mid) == {v \in Rows(s.meeting_versions) : v.meeting_id = mid}
    IN  [s EXCEPT !.meetings =
            [i \in DOMAIN t |->
                IF t[i].id = id
                THEN [t[i] EXCEPT
                        !.updated = MaxOf({v.observed : v \in versionsOf(t[i].id)}),
                        !.last_observed = timeValue_Value(observed)]
                ELSE t[i]]]

\* mutant: on conflict the URL row's added is set to the time of this save
SaveMeetingURL_Upsert(s, observed, meetingID, agendaContentID, u) ==
    LET t == s.external_content_urls
    IN  [s EXCEPT
            !.external_content_urls =
                IF \E i \in DOMAIN t : t[i].url = u
                THEN [i \in DOMAIN t |->
                        IF t[i].url = u
                        THEN [t[i] EXCEPT !.added = timeValue_Value(observed)]
                        ELSE t[i]]
                ELSE Append(t, [url |-> u, added |-> timeValue_Value(observed),
                                fetched |-> NullNum, content_type |-> NULL,
                                size |-> NullNum, last_modified |-> NullNum,
                                etag |-> NULL, error |-> NULL,
                                external_content_id |-> NULL]),
            !.meeting_external_content_urls =
                InsertOrIgnore(@, [meeting_id |-> meetingID,
                                   agenda_content_id |-> agendaContentID,
                                   external_content_url |-> u],
                               {"meeting_id", "agenda_content_id", "external_content_url"})]

\* mutant: the URL row is written with insert or replace
SaveMeetingURL_Replace(s, observed, meetingID, agendaContentID, u) ==
    LET IsOther(r) == r.url # u
    IN  [s EXCEPT
            !.external_content_urls =
                Append(SelectSeq(@, IsOther),
                       [url |-> u, added |-> timeValue_Value(observed),
                        fetched |-> NullNum, content_type |-> NULL,
                        size |-> NullNum, last_modified |-> NullNum,
                        etag |-> NULL, error |-> NULL,
                        external_content_id |-> NULL]),
            !.meeting_external_content_urls =
                InsertOrIgnore(@, [meeting_id |-> meetingID,
                                   agenda_content_id |-> agendaContentID,
                                   external_content_url |-> u],
                               {"meeting_id", "agenda_content_id", "external_content_url"})]

\* one round of saveMeetingURLs' loop: the URL row, then the link row
SaveMeetingURL(s, observed, meetingID, agendaContentID, u) ==
    [s EXCEPT
        !.external_content_urls =
            InsertOrIgnore(@, [url |-> u, added |-> timeValue_Value(observed),
                               fetched |-> NullNum, content_type |-> NULL,
                               size |-> NullNum, last_modified |-> NullNum,
                               etag |-> NULL, error |-> NULL,
                               external_content_id |-> NULL], {"url"}),
        !.meeting_external_content_urls =
            InsertOrIgnore(@, [meeting_id |-> meetingID,
                               agenda_content_id |-> agendaContentID,
                               external_content_url |-> u],
                           {"meeting_id", "agenda_content_id", "external_content_url"})]

RECURSIVE saveMeetingURLs(_, _, _, _, _)
saveMeetingURLs(s, observed, meetingID, agendaContentID, urls) ==
    IF urls = <<>> THEN s
    ELSE saveMeetingURLs(SaveMeetingURL(s, observed, meetingID, agendaContentID, Head(urls)),
                         observed, meetingID, agendaContentID, Tail(urls))

----------------------------------------------------------------------------
(* The external content pipeline: its statements and what a fetch may return *)

\* limit of the backlog query
BacklogLimit == 500

\* what GET u may answer: a failure (no connection, a status other than 200;
\* or the body breaks off while it is copied, the temporary file being created
\* by then), or one of the documents with its Content-Type, Last-Modified and
\* ETag headers
Responses ==
    { [ferr |-> "fetch: bad status 404", created |-> FALSE],
      [ferr |-> "fetch: unexpected EOF", created |-> TRUE],
      [ferr |-> "", body |-> "d1", contentType |-> "application/pdf",
       size |-> 2, lastModified |-> 1, etag |-> "e1"],
      [ferr |-> "", body |-> "d2", contentType |-> "text/html",
       size |-> 3, lastModified |-> ZeroTime, etag |-> ""] }

\* what processPDF may return for a fetched body: the title and text of the
\* document, or pdf{} with an error when a tool fails or the timeout is hit
PDFResults(contentID) ==
    { [p |-> [title |-> "title of " \o contentID, text |-> "text of " \o contentID],
       perr |-> ""],
      [p |-> [title |-> "", text |-> ""], perr |-> "pdftotext: exit status 1"] }

\* select url from external_content_urls where fetched is null limit 500
unfetchedURLs(s) ==
    LET IsUnfetched(r) == r.fetched = NullNum
        all == SelectSeq(s.external_content_urls, IsUnfetched)
        n == IF Len(all) < BacklogLimit THEN Len(all) ELSE BacklogLimit
    IN  [i \in 1..n |-> all[i].url]

\* saveErr: update external_content_urls set fetched=?, error=? where url=?
saveErr(s, u, fetched, ferr) ==
    LET t == s.external_content_urls
    IN  [s EXCEPT !.external_content_urls =
            [i \in DOMAIN t |->
                IF t[i].url = u
                THEN [t[i] EXCEPT !.fetched = timeValue_Value(fetched), !.error = ferr]
                ELSE t[i]]]

\* mutant: the existence query lacks its where clause
contentExists_AnyRow(s, id) == s.external_content # <<>>

\* select 1 from external_content where id=?
contentExists(s, id) == \E r \in Rows(s.external_content) : r.id = id

\* saveContent: insert into external_content ... on conflict do nothing, then
\* insert into external_content_search (rowid, title, text)
saveContent(s, c) ==
    LET t == InsertOrIgnore(s.external_content,
                            [id |-> c.id, title |-> c.title, text |-> c.text], {"id"})
    IN  [s EXCEPT !.external_content = t,
                  !.external_content_search =
                      Append(@, [rowid |-> RowidOf(t, c.id),
                                 title |-> c.title, text |-> c.text])]

\* mutant: the update binds "" to error, where the code binds nil
UpdateURLFetched_EmptyError(s, u, fetched, uc, contentID) ==
    LET t == s.external_content_urls
    IN  [s EXCEPT !.external_content_urls =
            [i \in DOMAIN t |->
                IF t[i].url = u
                THEN [t[i] EXCEPT
                        !.fetched = timeValue_Value(fetched),
                        !.content_type = uc.contentType,
                        !.size = uc.size,
                        !.last_modified = timeValue_Value(uc.lastModified),
                        !.etag = IF uc.etag # "" THEN uc.etag ELSE NULL,
                        !.error = "",
                        !.external_content_id = contentID]
                ELSE t[i]]]

\* update external_content_urls set fetched=?, content_type=?, size=?,
\* last_modified=?, etag=?, error=?, external_content_id=? where url=?
UpdateURLFetched(s, u, fetched, uc, contentID) ==
    LET t == s.external_content_urls
    IN  [s EXCEPT !.external_content_urls =
            [i \in DOMAIN t |->
                IF t[i].url = u
                THEN [t[i] EXCEPT
                        !.fetched = timeValue_Value(fetched),
                        !.content_type = uc.contentType,
                        !.size = uc.size,
                        !.last_modified = timeValue_Value(uc.lastModified),
                        !.etag = IF uc.etag # "" THEN uc.etag ELSE NULL,
                        !.error = NULL,
                        !.external_content_id = contentID]
                ELSE t[i]]]

----------------------------------------------------------------------------
(* Calls *)

NoRun == [active |-> FALSE]

NoCall == [op |-> "none", pc |-> "done", ret |-> "none"]

\* no call is in flight
Idle == call.pc = "done"

\* the call in flight returns nil; its frame is kept until the next call starts
Return(ret) == call' = [call EXCEPT !.pc = "done", !.ret = ret]

\* the temporary file of the processURL call in flight is left behind when the
\* call ends with ret: os.Remove is deferred only once fetchURLContent has
\* returned its urlContent, and nothing runs when the process stops
TempLeft(ret) ==
    IF call.op # "processURL" THEN FALSE
    ELSE IF ret = "crashed" THEN call.tmp
    ELSE call.tmp /\ call.uc.contentID = ""

\* the call in flight returns an error, or its process stops; `dirty` keeps
\* whether its transaction had written to the store by then, `tmp` whether a
\* temporary file of the call is left
Abort(ret) ==
    call' = [op |-> call.op, pc |-> "done", ret |-> ret,
             dirty |-> tx.open /\ tx.s # db, tmp |-> TempLeft(ret)]

\* the places of saveMeeting and processURL at which a statement is sent to the store
StorePCs == {"begin", "cq", "sq", "mq", "vq", "lq", "urls", "commit",
             "saveErr", "exists", "saveContent", "update"}

Init ==
    /\ db = initDB
    /\ tx = NoTx
    /\ call = NoCall
    /\ now = 1
    /\ run = NoRun
    /\ calls = 0

\* time passes between calls; only the order of the calls' times matters, so the
\* clock is let advance once per counted call, which bounds it by MaxCalls + 1
Tick ==
    /\ Idle
    /\ now <= calls
    /\ now' = now + 1
    /\ UNCHANGED <<db, tx, call, run, calls>>

(* saveMeeting(db, m, agenda, observed), called with observed = time.Now() *)

saveMeeting(m, agenda) ==
    /\ Idle
    /\ ~run.active
    /\ calls < MaxCalls
    /\ IF URL(m.URLs, "agenda") = ""
       THEN call' = [op |-> "saveMeeting", pc |-> "done", ret |-> "error",
                     dirty |-> FALSE]
       ELSE call' = [op |-> "saveMeeting", pc |-> "begin", ret |-> "none",
                     m |-> m, agenda |-> agenda, observed |-> now,
                     contentID |-> Sum224(agenda.ContentHTML \o "\n"), ra |-> 0,
                     repeat |-> /\ call.op = "saveMeeting"
                                /\ call.ret = "ok"
                                /\ call.m = m
                                /\ call.agenda = agenda
                                /\ call.observed = now]
    /\ UNCHANGED <<db, tx, now, run, calls>>

\* tx, err := db.Begin()
saveMeeting_Begin ==
    /\ call.op = "saveMeeting"
    /\ call.pc = "begin"
    /\ tx' = [open |-> TRUE, s |-> db]
    /\ call' = [call EXCEPT !.pc = "cq"]
    /\ UNCHANGED <<db, now, run, calls>>

\* mutant: sq is sent whether or not cq inserted a row
saveMeeting_InsertContent_AlwaysIndex ==
    /\ call.op = "saveMeeting"
    /\ call.pc = "cq"
    /\ LET s2 == InsertAgendaContent(tx.s, call.contentID, call.agenda)
           ra == Len(s2.meeting_agenda_content) - Len(tx.s.meeting_agenda_content)
       IN  /\ tx' = [tx EXCEPT !.s = s2]
           /\ call' = [call EXCEPT !.ra = ra, !.pc = "sq"]
    /\ UNCHANGED <<db, now, run, calls>>

\* res, err := tx.Exec(cq, ...); ra, err := res.RowsAffected(); if ra > 0
saveMeeting_InsertContent ==
    /\ call.op = "saveMeeting"
    /\ call.pc = "cq"
    /\ LET s2 == InsertAgendaContent(tx.s, call.contentID, call.agenda)
           ra == Len(s2.meeting_agenda_content) - Len(tx.s.meeting_agenda_content)
       IN  /\ tx' = [tx EXCEPT !.s = s2]
           /\ call' = [call EXCEPT !.ra = ra, !.pc = IF ra > 0 THEN "sq" ELSE "mq"]
    /\ UNCHANGED <<db, now, run, calls>>

saveMeeting_InsertSearch ==
    /\ call.op = "saveMeeting"
    /\ call.pc = "sq"
    /\ tx' = [tx EXCEPT !.s = InsertAgendaContentSearch(@, call.contentID, call.agenda)]
    /\ call' = [call EXCEPT !.pc = "mq"]
    /\ UNCHANGED <<db, now, run, calls>>

saveMeeting_UpsertMeeting ==
    /\ call.op = "saveMeeting"
    /\ call.pc = "mq"
    /\ tx' = [tx EXCEPT !.s = UpsertMeeting(@, call.m, call.contentID)]
    /\ call' = [call EXCEPT !.pc = "vq"]
    /\ UNCHANGED <<db, now, run, calls>>

\* mutant: vq is sent on the connection (db.Exec), outside the transaction
saveMeeting_InsertVersion_OnDB ==
    /\ call.op = "saveMeeting"
    /\ call.pc = "vq"
    /\ db' = InsertMeetingVersion(db, call.m, call.observed, call.contentID)
    /\ call' = [call EXCEPT !.pc = "lq"]
    /\ UNCHANGED <<tx, now, run, calls>>

saveMeeting_InsertVersion ==
    /\ call.op = "saveMeeting"
    /\ call.pc = "vq"
    /\ tx' = [tx EXCEPT !.s = InsertMeetingVersion(@, call.m, call.observed, call.contentID)]
    /\ call' = [call EXCEPT !.pc = "lq"]
    /\ UNCHANGED <<db, now, run, calls>>

saveMeeting_UpdateObserved ==
    /\ call.op = "saveMeeting"
    /\ call.pc = "lq"
    /\ tx' = [tx EXCEPT !.s = UpdateMeetingObserved(@, call.m.ID, call.observed)]
    /\ call' = [call EXCEPT !.pc = "urls"]
    /\ UNCHANGED <<db, now, run, calls>>

saveMeeting_URLs ==
    /\ call.op = "saveMeeting"
    /\ call.pc = "urls"
    /\ tx' = [tx EXCEPT !.s = saveMeetingURLs(@, call.observed, call.m.ID,
                                              call.contentID, call.agenda.ContentURLs)]
    /\ call' = [call EXCEPT !.pc = "commit"]
    /\ UNCHANGED <<db, now, run, calls>>

\* tx.Commit()
saveMeeting_Commit ==
    /\ call.op = "saveMeeting"
    /\ call.pc = "commit"
    /\ db' = tx.s
    /\ tx' = NoTx
    /\ Return("ok")
    /\ calls' = calls + 1
    /\ UNCHANGED <<now, run>>

(* processExternalContentURLs and processURL *)

\* checkPDF: an error when exec.LookPath misses one of the four tools
checkPDF(lookPathOK) == IF lookPathOK THEN "" ELSE "missing tool"

\* mutant: the backlog is read before checkPDF is called
processExternalContentURLs_QueryFirst(lookPathOK, queryOK) ==
    LET cerr == checkPDF(lookPathOK)
        err == IF ~queryOK THEN "unfetched urls: query failed"
               ELSE IF cerr # "" THEN cerr
               ELSE ""
    IN  /\ Idle
        /\ ~run.active
        /\ calls < MaxCalls
        /\ calls' = IF err = "" THEN calls + 1 ELSE calls
        /\ call' = [op |-> "processExternalContentURLs", pc |-> "done",
                    ret |-> IF err = "" THEN "none" ELSE "error",
                    lookPathOK |-> lookPathOK, err |-> err]
        /\ run' = IF err = ""
                  THEN [active |-> TRUE, urls |-> unfetchedURLs(db), i |-> 1]
                  ELSE NoRun
        /\ UNCHANGED <<db, tx, now>>

\* checkPDF, then the backlog query, up to the loop.  lookPathOK: the toolchain
\* is installed; queryOK: the backlog query succeeds (when it is sent).  The
\* frame keeps what LookPath answered and the error returned, if any.
processExternalContentURLs(lookPathOK, queryOK) ==
    LET cerr == checkPDF(lookPathOK)
        err == IF cerr # "" THEN cerr
               ELSE IF ~queryOK THEN "unfetched urls: query failed"
               ELSE ""
    IN  /\ Idle
        /\ ~run.active
        /\ calls < MaxCalls
        /\ calls' = IF err = "" THEN calls + 1 ELSE calls
        /\ call' = [op |-> "processExternalContentURLs", pc |-> "done",
                    ret |-> IF err = "" THEN "none" ELSE "error",
                    lookPathOK |-> lookPathOK, err |-> err]
        /\ run' = IF err = ""
                  THEN [active |-> TRUE, urls |-> unfetchedURLs(db), i |-> 1]
                  ELSE NoRun
        /\ UNCHANGED <<db, tx, now>>

\* the loop's head, limiter.Wait, and the entry of processURL(ctx, db, u).
\* `permit` is what the wait gives: leave for one request, taken by the next
\* http.DefaultClient.Do
processURL ==
    /\ Idle
    /\ run.active
    /\ run.i <= Len(run.urls)
    /\ call' = [op |-> "processURL", pc |-> "fetch", ret |-> "none",
                u |-> run.urls[run.i], now |-> now, permit |-> TRUE, tmp |-> FALSE,
                ferr |-> "", err |-> "", exists |-> FALSE,
                uc |-> [f |-> "", contentType |-> "", contentID |-> "", size |-> 0,
                        lastModified |-> ZeroTime, etag |-> ""],
                perr |-> "",
                c |-> [id |-> "", title |-> "", text |-> ""]]
    /\ UNCHANGED <<db, tx, now, run, calls>>

\* mutant: the content hash is taken over the URL and the body
processURL_fetchURLContent_HashesURL(resp) ==
    /\ call.op = "processURL"
    /\ call.pc = "fetch"
    /\ IF resp.ferr # ""
       THEN call' = [call EXCEPT !.permit = FALSE, !.ferr = resp.ferr,
                                  !.tmp = resp.created, !.pc = "saveErr"]
       ELSE call' = [call EXCEPT
                        !.permit = FALSE,
                        !.tmp = TRUE,
                        !.uc = [f |-> resp.body,
                                contentType |-> resp.contentType,
                                contentID |-> Sum224(call.u \o resp.body),
                                size |-> resp.size,
                                lastModified |-> resp.lastModified,
                                etag |-> resp.etag],
                        !.c = [id |-> Sum224(call.u \o resp.body), title |-> "", text |-> ""],
                        !.pc = "exists"]
    /\ UNCHANGED <<db, tx, now, run, calls>>

\* uc, ferr := fetchURLContent(ctx, u)
processURL_fetchURLContent(resp) ==
    /\ call.op = "processURL"
    /\ call.pc = "fetch"
    /\ IF resp.ferr # ""
       THEN call' = [call EXCEPT !.permit = FALSE, !.ferr = resp.ferr,
                                  !.tmp = resp.created, !.pc = "saveErr"]
       ELSE call' = [call EXCEPT
                        !.permit = FALSE,
                        !.tmp = TRUE,
                        !.uc = [f |-> resp.body,
                                contentType |-> resp.contentType,
                                contentID |-> Sum224(resp.body),
                                size |-> resp.size,
                                lastModified |-> resp.lastModified,
                                etag |-> resp.etag],
                        !.c = [id |-> Sum224(resp.body), title |-> "", text |-> ""],
                        !.pc = "exists"]
    /\ UNCHANGED <<db, tx, now, run, calls>>

\* mutant: processURL returns the fetch error once it is saved
processURL_saveErr_ReturnsErr ==
    /\ call.op = "processURL"
    /\ call.pc = "saveErr"
    /\ db' = saveErr(db, call.u, call.now, call.ferr)
    /\ Abort("error")
    /\ run' = NoRun
    /\ UNCHANGED <<tx, now, calls>>

\* saveErr(ferr) on the connection, outside any transaction; processURL returns nil
processURL_saveErr ==
    /\ call.op = "processURL"
    /\ call.pc = "saveErr"
    /\ db' = saveErr(db, call.u, call.now, call.ferr)
    /\ call' = [call EXCEPT !.pc = "done", !.ret = "ok", !.tmp = TempLeft("ok")]
    /\ run' = [run EXCEPT !.i = @ + 1]
    /\ UNCHANGED <<tx, now, calls>>

\* mutant: every new body is handed to processPDF, whatever its content type
processURL_contentExists_AlwaysExtracts ==
    /\ call.op = "processURL"
    /\ call.pc = "exists"
    /\ LET exists == contentExists(db, call.c.id)
       IN  call' = [call EXCEPT
                       !.exists = exists,
                       !.err = "",
                       !.pc = IF ~exists THEN "pdf" ELSE "begin"]
    /\ UNCHANGED <<db, tx, now, run, calls>>

\* exists, err := contentExists(ctx, db, c.id)
processURL_contentExists ==
    /\ call.op = "processURL"
    /\ call.pc = "exists"
    /\ LET exists == contentExists(db, call.c.id)
       IN  call' = [call EXCEPT
                       !.exists = exists,
                       !.err = "",
                       !.pc = IF ~exists /\ call.uc.contentType = "application/pdf"
                              THEN "pdf" ELSE "begin"]
    /\ UNCHANGED <<db, tx, now, run, calls>>

\* mutant: the test that follows processPDF reads perr
processURL_processPDF_ReadsPerr ==
    /\ call.op = "processURL"
    /\ call.pc = "pdf"
    /\ \E res \in PDFResults(call.c.id) :
        IF res.perr # ""
        THEN call' = [call EXCEPT !.perr = res.perr, !.ferr = res.perr, !.pc = "saveErr"]
        ELSE call' = [call EXCEPT !.perr = res.perr,
                                  !.c.title = res.p.title, !.c.text = res.p.text,
                                  !.pc = "begin"]
    /\ UNCHANGED <<db, tx, now, run, calls>>

\* p, perr := processPDF(ctx, uc.f); the test that follows it reads err
processURL_processPDF ==
    /\ call.op = "processURL"
    /\ call.pc = "pdf"
    /\ \E res \in PDFResults(call.c.id) :
        IF call.err # ""
        THEN call' = [call EXCEPT !.ferr = res.perr, !.pc = "saveErr"]
        ELSE call' = [call EXCEPT !.perr = res.perr,
                                  !.c.title = res.p.title, !.c.text = res.p.text,
                                  !.pc = "begin"]
    /\ UNCHANGED <<db, tx, now, run, calls>>

\* mutant: saveContent is called whether or not the content exists
processURL_Begin_AlwaysSave ==
    /\ call.op = "processURL"
    /\ call.pc = "begin"
    /\ tx' = [open |-> TRUE, s |-> db]
    /\ call' = [call EXCEPT !.pc = "saveContent"]
    /\ UNCHANGED <<db, now, run, calls>>

\* tx, err := db.Begin()
processURL_Begin ==
    /\ call.op = "processURL"
    /\ call.pc = "begin"
    /\ tx' = [open |-> TRUE, s |-> db]
    /\ call' = [call EXCEPT !.pc = IF ~call.exists THEN "saveContent" ELSE "update"]
    /\ UNCHANGED <<db, now, run, calls>>

\* mutant: the content row and its index row are written on the connection
processURL_saveContent_OnDB ==
    /\ call.op = "processURL"
    /\ call.pc = "saveContent"
    /\ db' = saveContent(db, call.c)
    /\ tx' = [tx EXCEPT !.s = saveContent(@, call.c)]
    /\ call' = [call EXCEPT !.pc = "update"]
    /\ UNCHANGED <<now, run, calls>>

\* saveContent(ctx, tx, c), when the content is new
processURL_saveContent ==
    /\ call.op = "processURL"
    /\ call.pc = "saveContent"
    /\ tx' = [tx EXCEPT !.s = saveContent(@, call.c)]
    /\ call' = [call EXCEPT !.pc = "update"]
    /\ UNCHANGED <<db, now, run, calls>>

processURL_UpdateURL ==
    /\ call.op = "processURL"
    /\ call.pc = "update"
    /\ tx' = [tx EXCEPT !.s = UpdateURLFetched(@, call.u, call.now, call.uc, call.c.id)]
    /\ call' = [call EXCEPT !.pc = "commit"]
    /\ UNCHANGED <<db, now, run, calls>>

\* tx.Commit(); processURL returns nil, the deferred os.Remove and Close run,
\* and the loop goes on
processURL_Commit ==
    /\ call.op = "processURL"
    /\ call.pc = "commit"
    /\ db' = tx.s
    /\ tx' = NoTx
    /\ call' = [call EXCEPT !.pc = "done", !.ret = "ok", !.tmp = TempLeft("ok")]
    /\ run' = [run EXCEPT !.i = @ + 1]
    /\ UNCHANGED <<now, calls>>

\* mutant: the time is tested at the head of the loop, before the URL
processExternalContentURLs_OutOfTime_AtLoopHead ==
    /\ Idle
    /\ run.active
    /\ run' = NoRun
    /\ UNCHANGED <<db, tx, call, now, calls>>

\* mutant: running out of time is returned as an error
processExternalContentURLs_OutOfTime_ReturnsErr ==
    /\ Idle
    /\ run.active
    /\ call.op = "processURL"
    /\ run' = NoRun
    /\ call' = [op |-> "processExternalContentURLs", pc |-> "done", ret |-> "error",
                lookPathOK |-> TRUE, err |-> "out of time"]
    /\ UNCHANGED <<db, tx, now, calls>>

\* time.Since(start) > 30*time.Minute after a URL: the run returns nil
processExternalContentURLs_OutOfTime ==
    /\ Idle
    /\ run.active
    /\ call.op = "processURL"
    /\ run' = NoRun
    /\ UNCHANGED <<db, tx, call, now, calls>>

\* the batch is done: the run returns nil
processExternalContentURLs_Done ==
    /\ Idle
    /\ run.active
    /\ run.i > Len(run.urls)
    /\ run' = NoRun
    /\ UNCHANGED <<db, tx, call, now, calls>>

(* Failures *)

\* the statement at hand (Begin, Exec, QueryRow, Commit) returns an error: the
\* deferred tx.Rollback() drops the transaction, the call returns the error and
\* a pipeline run returns it in turn
StatementFails ==
    /\ ~Idle
    /\ call.pc \in StorePCs
    /\ tx' = NoTx
    /\ Abort("error")
    /\ run' = NoRun
    /\ UNCHANGED <<db, now, calls>>

\* the process stops: an open transaction is never committed
Crash ==
    /\ ~Idle
    /\ tx' = NoTx
    /\ Abort("crashed")
    /\ run' = NoRun
    /\ UNCHANGED <<db, now, calls>>

Next ==
    \/ Tick
    \/ \E in \in SaveInputs : saveMeeting(in[1], in[2])
    \/ saveMeeting_Begin
    \/ saveMeeting_InsertContent
    \/ saveMeeting_InsertSearch
    \/ saveMeeting_UpsertMeeting
    \/ saveMeeting_InsertVersion
    \/ saveMeeting_UpdateObserved
    \/ saveMeeting_URLs
    \/ saveMeeting_Commit
    \/ \E lookPathOK, queryOK \in BOOLEAN :
            processExternalContentURLs(lookPathOK, queryOK)
    \/ processURL
    \/ \E resp \in Responses : processURL_fetchURLContent(resp)
    \/ processURL_saveErr
    \/ processURL_contentExists
    \/ processURL_processPDF
    \/ processURL_Begin
    \/ processURL_saveContent
    \/ processURL_UpdateURL
    \/ processURL_Commit
    \/ processExternalContentURLs_OutOfTime
    \/ processExternalContentURLs_Done
    \/ StatementFails
    \/ Crash

Spec == Init /\ [][Next]_vars

----------------------------------------------------------------------------
(* processPDF: the extraction cascade on one fetched file.  A Go string is   *)
(* the sequence of its characters; the names of the files pdftoppm writes    *)
(* are told apart by their page number field, a sequence of decimal digits.  *)

\* no document of the model has more pages
MaxPages == 11

\* unicode.IsSpace
IsSpace(c) == c \in {" ", "\n"}

\* strings.TrimSpace
RECURSIVE TrimLeft(_)
TrimLeft(str) ==
    IF str # <<>> /\ IsSpace(Head(str)) THEN TrimLeft(Tail(str)) ELSE str

RECURSIVE TrimRight(_)
TrimRight(str) ==
    IF str # <<>> /\ IsSpace(str[Len(str)])
    THEN TrimRight(SubSeq(str, 1, Len(str) - 1))
    ELSE str

TrimSpace(str) == TrimRight(TrimLeft(str))

\* strings.TrimPrefix, strings.TrimSuffix
TrimPrefix(str, prefix) ==
    IF Len(str) >= Len(prefix) /\ SubSeq(str, 1, Len(prefix)) = prefix
    THEN SubSeq(str, Len(prefix) + 1, Len(str))
    ELSE str

TrimSuffix(str, suffix) ==
    IF Len(str) >= Len(suffix)
       /\ SubSeq(str, Len(str) - Len(suffix) + 1, Len(str)) = suffix
    THEN SubSeq(str, 1, Len(str) - Len(suffix))
    ELSE str

\* the title processPDF takes from pdfinfo's output, a sequence of lines: the
\* first line with the prefix "Title:", less the prefix, the suffix
\* "| Halifax.ca" and the space around
RECURSIVE TitleLine(_)
TitleLine(lines) ==
    IF lines = <<>> THEN <<>>
    ELSE IF Len(Head(lines)) >= 1 /\ Head(Head(lines)) = "Title:" THEN Head(lines)
    ELSE TitleLine(Tail(lines))

Title(lines) ==
    TrimSpace(TrimSuffix(TrimSpace(TrimPrefix(TitleLine(lines), <<"Title:">>)),
                         <<"| Halifax.ca">>))

\* what pdfinfo may print: no Title line, or Title lines among others
InfoOutputs ==
    { << <<"Pages:", " ", "3">> >>,
      << <<"Pages:", " ", "3">>,
         <<"Title:", " ", " ", "Agenda", " ", "| Halifax.ca">>,
         <<"Title:", "other">> >> }

\* what pdftotext may print: nothing, white space only, or text within white space
TextLayers ==
    { <<>>, <<" ", "\n">>, <<"a">>, <<"\n", "a", " ", "b", "\n">> }

\* the documents processPDF is called on
PDFDocs ==
    [info : InfoOutputs, layer : TextLayers, pages : 0..MaxPages]

\* the number of decimal digits of n
NumberOfCharacters(n) == IF n < 10 THEN 1 ELSE IF n < 100 THEN 2 ELSE 3

\* the page number field of the file pdftoppm writes for page k of n: k in
\* decimal, padded with zeros to the width of n
PageNumber(k, n) ==
    LET w == NumberOfCharacters(n)
    IN  [i \in 1..w |-> (k \div (10 ^ (w - i))) % 10]

\* a < b in the byte order of strings, on digit sequences
RECURSIVE LexLess(_, _)
LexLess(a, b) ==
    IF b = <<>> THEN FALSE
    ELSE IF a = <<>> THEN TRUE
    ELSE IF Head(a) # Head(b) THEN Head(a) < Head(b)
    ELSE LexLess(Tail(a), Tail(b))

\* filepath.Glob(filepath.Join(td, "page*" + ext)): the files of td with the
\* extension, sorted by name
RECURSIVE SortByName(_)
SortByName(files) ==
    IF files = {} THEN <<>>
    ELSE LET first == CHOOSE f \in files :
                        \A g \in files \ {f} : LexLess(f.number, g.number)
         IN  <<first>> \o SortByName(files \ {first})

Glob(td, ext) == SortByName({f \in td : f.ext = ext})

\* the text tesseract recognizes on page k
OCRText(k) == <<ToString(k)>>

\* the frame of processPDF(ctx, f) at its entry
PDFFrame(doc) ==
    [op |-> "processPDF", pc |-> "pdfinfo", ret |-> "none", doc |-> doc,
     title |-> <<>>, text |-> <<>>,
     tdExists |-> FALSE, td |-> {},
     pageFns |-> <<>>, textFns |-> <<>>, i |-> 1,
     invoked |-> <<>>,
     p |-> [title |-> <<>>, text |-> <<>>], err |-> ""]

\* exec.CommandContext(ctx, tool, ...) is run
Invoke(frame, tool, arg) ==
    [frame EXCEPT !.invoked = Append(@, [tool |-> tool, arg |-> arg])]

\* mutant: the directory is removed only before a return of nil
PDFReturn_RemovesOnSuccess(frame, p, err) ==
    IF err = ""
    THEN [frame EXCEPT !.pc = "done", !.ret = "ok", !.p = p, !.err = err,
                       !.tdExists = FALSE, !.td = {}]
    ELSE [frame EXCEPT !.pc = "done", !.ret = "error", !.p = p, !.err = err]

\* return p, err; the deferred os.RemoveAll(td) removes the directory if it was made
PDFReturn(frame, p, err) ==
    [frame EXCEPT !.pc = "done", !.ret = IF err = "" THEN "ok" ELSE "error",
                  !.p = p, !.err = err, !.tdExists = FALSE, !.td = {}]

NoPDF == [title |-> <<>>, text |-> <<>>]

InitPDF ==
    /\ db = initDB
    /\ tx = NoTx
    /\ call \in {PDFFrame(doc) : doc \in PDFDocs}
    /\ now = 1
    /\ run = NoRun
    /\ calls = 0

\* pdfinfo; ok: it exits with status 0 within the timeout
processPDF_pdfinfo(ok) ==
    /\ call.op = "processPDF"
    /\ call.pc = "pdfinfo"
    /\ LET c == Invoke(call, "pdfinfo", <<>>)
       IN  call' = IF ~ok THEN PDFReturn(c, NoPDF, "pdfinfo")
                   ELSE [c EXCEPT !.title = Title(call.doc.info), !.pc = "pdftotext"]
    /\ UNCHANGED <<db, tx, now, run, calls>>

\* mutant: the cascade goes on to rasterization whatever pdftotext printed
processPDF_pdftotext_NoEarlyReturn(ok) ==
    /\ call.op = "processPDF"
    /\ call.pc = "pdftotext"
    /\ LET c == Invoke(call, "pdftotext", <<>>)
       IN  call' = IF ~ok THEN PDFReturn(c, NoPDF, "pdftotext")
                   ELSE [c EXCEPT !.pc = "mkdir"]
    /\ UNCHANGED <<db, tx, now, run, calls>>

\* pdftotext; a text that is not empty once trimmed is the result
processPDF_pdftotext(ok) ==
    /\ call.op = "processPDF"
    /\ call.pc = "pdftotext"
    /\ LET c == Invoke(call, "pdftotext", <<>>)
           text == TrimSpace(call.doc.layer)
       IN  call' = IF ~ok THEN PDFReturn(c, NoPDF, "pdftotext")
                   ELSE IF text # <<>>
                   THEN PDFReturn(c, [title |-> call.title, text |-> text], "")
                   ELSE [c EXCEPT !.pc = "mkdir"]
    /\ UNCHANGED <<db, tx, now, run, calls>>

\* td, err := os.MkdirTemp("", "processPDF")
processPDF_MkdirTemp(ok) ==
    /\ call.op = "processPDF"
    /\ call.pc = "mkdir"
    /\ call' = IF ~ok THEN PDFReturn(call, NoPDF, "mkdir temp")
               ELSE [call EXCEPT !.tdExists = TRUE, !.pc = "pdftoppm"]
    /\ UNCHANGED <<db, tx, now, run, calls>>

\* pdftoppm -png f td/page writes one file per page; then the first Glob
processPDF_pdftoppm(ok) ==
    /\ call.op = "processPDF"
    /\ call.pc = "pdftoppm"
    /\ LET c == Invoke(call, "pdftoppm", <<>>)
           td == {[number |-> PageNumber(k, call.doc.pages), ext |-> ".png", page |-> k] :
                    k \in 1..call.doc.pages}
       IN  call' = IF ~ok THEN PDFReturn(c, NoPDF, "pdftoppm")
                   ELSE [c EXCEPT !.td = td, !.pageFns = Glob(td, ".png"),
                                  !.i = 1, !.pc = "tesseract"]
    /\ UNCHANGED <<db, tx, now, run, calls>>

\* one round of the loop over pageFns: tesseract pageFn pageFn writes pageFn.txt
processPDF_tesseract(ok) ==
    /\ call.op = "processPDF"
    /\ call.pc = "tesseract"
    /\ call.i <= Len(call.pageFns)
    /\ LET pageFn == call.pageFns[call.i]
           c == Invoke(call, "tesseract", pageFn.number)
       IN  call' = IF ~ok THEN PDFReturn(c, NoPDF, "tesseract")
                   ELSE [c EXCEPT !.td = @ \cup {[pageFn EXCEPT !.ext = ".png.txt"]},
                                  !.i = @ + 1]
    /\ UNCHANGED <<db, tx, now, run, calls>>

\* the loop over pageFns is over: the second Glob
processPDF_GlobTexts ==
    /\ call.op = "processPDF"
    /\ call.pc = "tesseract"
    /\ call.i > Len(call.pageFns)
    /\ call' = [call EXCEPT !.textFns = Glob(call.td, ".png.txt"),
                            !.text = <<>>, !.i = 1, !.pc = "read"]
    /\ UNCHANGED <<db, tx, now, run, calls>>

\* mutant: the text of a file is put before the text read so far
processPDF_ReadFile_Prepends(ok) ==
    /\ call.op = "processPDF"
    /\ call.pc = "read"
    /\ call.i <= Len(call.textFns)
    /\ call' = IF ~ok THEN PDFReturn(call, NoPDF, "read text")
               ELSE [call EXCEPT
                        !.text = OCRText(call.textFns[call.i].page) \o <<"\n">> \o @,
                        !.i = @ + 1]
    /\ UNCHANGED <<db, tx, now, run, calls>>

\* one round of the loop over textFns: text += string(b) + "\n"
processPDF_ReadFile(ok) ==
    /\ call.op = "processPDF"
    /\ call.pc = "read"
    /\ call.i <= Len(call.textFns)
    /\ call' = IF ~ok THEN PDFReturn(call, NoPDF, "read text")
               ELSE [call EXCEPT
                        !.text = @ \o OCRText(call.textFns[call.i].page) \o <<"\n">>,
                        !.i = @ + 1]
    /\ UNCHANGED <<db, tx, now, run, calls>>

\* return pdf{title, strings.TrimSpace(text)}, nil
processPDF_Return ==
    /\ call.op = "processPDF"
    /\ call.pc = "read"
    /\ call.i > Len(call.textFns)
    /\ call' = PDFReturn(call, [title |-> call.title, text |-> TrimSpace(call.text)], "")
    /\ UNCHANGED <<db, tx, now, run, calls>>

NextPDF ==
    \/ \E ok \in BOOLEAN : processPDF_pdfinfo(ok)
    \/ \E ok \in BOOLEAN : processPDF_pdftotext(ok)
    \/ \E ok \in BOOLEAN : processPDF_MkdirTemp(ok)
    \/ \E ok \in BOOLEAN : processPDF_pdftoppm(ok)
    \/ \E ok \in BOOLEAN : processPDF_tesseract(ok)
    \/ processPDF_GlobTexts
    \/ \E ok \in BOOLEAN : processPDF_ReadFile(ok)
    \/ processPDF_Return

SpecPDF == InitPDF /\ [][NextPDF]_vars

----------------------------------------------------------------------------
(* isMeetingFresh.  Where durations matter the clock counts minutes; a      *)
(* calendar day has 24 hours and a calendar month 30 days.                   *)

\* time.Hour, in ticks of the clock
Hour == 60

Day == 24 * Hour

\* time.Time.AddDate(0, months, days)
AddDate(t, months, days) == t + months * 30 * Day + days * Day

\* the statements of one saveMeeting transaction, applied to store s
SaveAll(s, m, agenda, observed) ==
    LET contentID == Sum224(agenda.ContentHTML \o "\n")
        s1 == InsertAgendaContent(s, contentID, agenda)
        s2 == IF Len(s1.meeting_agenda_content) > Len(s.meeting_agenda_content)
              THEN InsertAgendaContentSearch(s1, contentID, agenda) ELSE s1
        s3 == UpsertMeeting(s2, m, contentID)
        s4 == InsertMeetingVersion(s3, m, observed, contentID)
        s5 == UpdateMeetingObserved(s4, m.ID, observed)
    IN  saveMeetingURLs(s5, observed, m.ID, contentID, agenda.ContentURLs)

\* a listed meeting of the given date
DatedMeeting(id, date) == [ListedMeeting(id, "") EXCEPT !.Event.Date = date]

\* the midnight that begins today, and the times of day isMeetingFresh is called at
Today == 400 * Day

FreshNows == {Today, Today + 10 * Hour}

\* the dates of the meetings asked about, in days from today
FreshDays == {-30, -8, -7, -6, 0, 1, 7, 8, 30}

\* how long before now the meeting was last observed
FreshAges == {0, Hour - 3, Hour - 2, Hour - 1, Hour + 1,
              23 * Hour - 1, 23 * Hour, 24 * Hour, 25 * Hour - 1, 25 * Hour}

\* const jitter = 2 * time.Hour, and the values rand.N(jitter) is drawn from
Jitter == 2 * Hour

RandN == {0, 1, Hour, Jitter - 1}

\* mutant: a meeting more than 7 days ahead is treated as one more than 7 days past
Threshold_Symmetric(date, t, rnd) ==
    IF date < AddDate(t, 0, -7) \/ date > AddDate(t, 0, 7)
    THEN 24 * Hour + (rnd - Jitter \div 2)
    ELSE Hour - 2

\* mutant: no margin is taken off the hour
Threshold_NoMargin(date, t, rnd) ==
    IF date < AddDate(t, 0, -7)
    THEN 24 * Hour + (rnd - Jitter \div 2)
    ELSE Hour

\* the threshold of isMeetingFresh at time t, rnd being what rand.N(jitter) returns
Threshold(date, t, rnd) ==
    IF date < AddDate(t, 0, -7)
    THEN 24 * Hour + (rnd - Jitter \div 2)
    ELSE Hour - 2

\* now.Sub(lastObserved) < threshold; the difference to the zero time is the
\* largest Duration
IsWithin(t, lastObserved, threshold) ==
    IF lastObserved = ZeroTime THEN FALSE ELSE t - lastObserved < threshold

InitFresh ==
    /\ now \in FreshNows
    /\ \E d \in FreshDays :
        LET m == DatedMeeting("m1", Today + d * Day)
        IN  /\ call = [op |-> "isMeetingFresh", pc |-> "query", ret |-> "none", m |-> m,
                       lastObserved |-> ZeroTime, threshold |-> 0, fresh |-> FALSE]
            /\ \/ db = initDB
               \/ db = SaveAll(initDB, DatedMeeting("m2", Today), A1, now - Hour)
               \/ \E age \in FreshAges : db = SaveAll(initDB, m, A1, now - age)
    /\ tx = NoTx
    /\ run = NoRun
    /\ calls = 0

\* select last_observed from meetings where id=?; no row: return false, nil
isMeetingFresh_Query(ok) ==
    /\ call.op = "isMeetingFresh"
    /\ call.pc = "query"
    /\ LET rows == {r \in Rows(db.meetings) : r.id = call.m.ID}
       IN  call' = IF ~ok THEN [call EXCEPT !.pc = "done", !.ret = "error"]
                   ELSE IF rows = {}
                   THEN [call EXCEPT !.pc = "done", !.ret = "ok", !.fresh = FALSE]
                   ELSE [call EXCEPT
                            !.lastObserved =
                                timeValue_Scan((CHOOSE r \in rows : TRUE).last_observed),
                            !.pc = "threshold"]
    /\ UNCHANGED <<db, tx, now, run, calls>>

\* now := time.Now(); the threshold; return now.Sub(lastObserved) < threshold, nil
isMeetingFresh_Return(rnd) ==
    /\ call.op = "isMeetingFresh"
    /\ call.pc = "threshold"
    /\ LET threshold == Threshold(call.m.Event.Date, now, rnd)
       IN  call' = [call EXCEPT
                        !.threshold = threshold,
                        !.fresh = IsWithin(now, call.lastObserved, threshold),
                        !.pc = "done", !.ret = "ok"]
    /\ UNCHANGED <<db, tx, now, run, calls>>

NextFresh ==
    \/ \E ok \in BOOLEAN : isMeetingFresh_Query(ok)
    \/ \E rnd \in RandN : isMeetingFresh_Return(rnd)

SpecFresh == InitFresh /\ [][NextFresh]_vars

----------------------------------------------------------------------------
(* Client.List: the ID of a listed meeting.  A Go string is the sequence of  *)
(* its characters.                                                           *)

\* "https://www.halifax.ca/city-hall"
CityHall ==
    <<"h", "t", "t", "p", "s", ":", "/", "/", "w", "w", "w", ".",
      "h", "a", "l", "i", "f", "a", "x", ".", "c", "a", "/", "c",
      "i", "t", "y", "-", "h", "a", "l", "l">>

\* "http://legacycontent.halifax.ca/council/"
LegacyCouncil ==
    <<"h", "t", "t", "p", ":", "/", "/", "l", "e", "g", "a", "c",
      "y", "c", "o", "n", "t", "e", "n", "t", ".", "h", "a", "l",
      "i", "f", "a", "x", ".", "c", "a", "/", "c", "o", "u", "n",
      "c", "i", "l", "/">>

\* mutant: the prefix taken off ends in the slash
MeetingID_SlashInPrefix(agenda) ==
    LET id1 == TrimPrefix(agenda, CityHall \o <<"/">>)
    IN  TrimPrefix(id1, LegacyCouncil)

\* m.ID, from urls["agenda"]
MeetingID(agenda) ==
    LET id1 == TrimPrefix(agenda, CityHall)
        id2 == TrimPrefix(id1, <<"/">>)
    IN  TrimPrefix(id2, LegacyCouncil)

\* the paths agenda links are published under
Paths ==
    { <<>>, <<"a">>, <<"a", "/", "b">>, <<"b", "o", "a", "r", "d", "s">>,
      <<"/", "a">>, <<"/">>, LegacyCouncil \o <<"a">> }

\* the three forms one agenda link is published in
AgendaForms(P) ==
    << CityHall \o <<"/">> \o P, CityHall \o P, LegacyCouncil \o P >>

\* the meeting Client.List makes of a table row whose agenda link is `agenda`
RowMeeting(agenda) ==
    [ID |-> MeetingID(agenda), Type |-> "Regional Council",
     Event |-> [Date |-> Today, Note |-> ""],
     URLs |-> <<[Name |-> "agenda", URL |-> agenda]>>]

NoMeeting == [ID |-> <<>>, Type |-> "", Event |-> [Date |-> 0, Note |-> ""], URLs |-> <<>>]

\* a path is chosen; the source publishes it in one form, the crawl lists and
\* saves it, then the source publishes it in another form
InitID ==
    /\ db = initDB
    /\ tx = NoTx
    /\ now = Today
    /\ calls = 0
    /\ run = NoRun
    /\ \E P \in Paths, f \in 1..3 :
        call = [op |-> "Client.List", pc |-> "row", ret |-> "none",
                P |-> P, form |-> f, agenda |-> AgendaForms(P)[f],
                m |-> NoMeeting, first |-> NoMeeting]

\* one row of the listing is read and its meeting appended
Client_List_Row ==
    /\ call.op = "Client.List"
    /\ call.pc = "row"
    /\ call' = [call EXCEPT !.m = RowMeeting(call.agenda), !.pc = "listed"]
    /\ UNCHANGED <<db, tx, now, run, calls>>

\* the listed meeting is saved with the agenda fetched for it
Client_List_Save ==
    /\ call.op = "Client.List"
    /\ call.pc = "listed"
    /\ db' = SaveAll(db, call.m, A1, now)
    /\ call' = [call EXCEPT !.pc = "saved", !.ret = "ok"]
    /\ UNCHANGED <<tx, now, run, calls>>

\* the source publishes the same path in form f
Client_List_Republished(f) ==
    /\ call.op = "Client.List"
    /\ call.pc = "saved"
    /\ call.first = NoMeeting
    /\ call' = [call EXCEPT !.pc = "row", !.ret = "none", !.form = f,
                            !.agenda = AgendaForms(call.P)[f],
                            !.first = call.m]
    /\ now' = now + Hour
    /\ UNCHANGED <<db, tx, run, calls>>

NextID ==
    \/ Client_List_Row
    \/ Client_List_Save
    \/ \E f \in 1..3 : Client_List_Republished(f)

SpecID == InitID /\ [][NextID]_vars

----------------------------------------------------------------------------
(* processMeetings: a crawl run.  While it lasts `run` holds its record      *)
(* (cutoff, source and page at hand, needMeetings, position in the queue);   *)
(* the calls to saveMeeting it makes are the frames of `call`.               *)

\* the sources, in the order processMeetings lists them
Clients == <<"halifax", "escribe">>

\* no source answers more than MaxLists List calls of one run
MaxLists == 4

\* the meetings the sources list: one ahead, one dated a month before today,
\* one long past, one without agenda link (its ID is empty), one of escribe
MNew == DatedMeeting("m1", Today + Day)

MEdge == DatedMeeting("m2", AddDate(Today, -1, 0))

MOld == DatedMeeting("m3", Today - 300 * Day)

MBare == [NoAgendaMeeting("") EXCEPT !.Event.Date = Today]

MEscribe == DatedMeeting("e1", Today)

\* a meeting escribe lists with no agenda document (and no "Continuation" type)
MEscribeBare == [NoAgendaMeeting("e2") EXCEPT !.Event.Date = Today]

Page(meetings, next) == [err |-> "", meetings |-> meetings, next |-> next]

\* what List(ctx, token) of a source may answer: an error, or a batch and the
\* token of the next page.  A page of halifax may link to itself as the next.
ListResponses(c, token) ==
    {[err |-> "bad status 500", meetings |-> <<>>, next |-> ""]} \cup
    IF c = "halifax"
    THEN IF token = ""
         THEN {Page(<<MNew, MEdge>>, "p2"), Page(<<MOld, MNew>>, "p2"),
               Page(<<MNew>>, ""), Page(<<MBare>>, "")}
         ELSE {Page(<<MOld>>, "p3"), Page(<<MEdge>>, ""), Page(<<>>, token)}
    ELSE {Page(<<MEscribe>>, ""), Page(<<MEscribeBare, MEscribe>>, ""), Page(<<>>, "")}

\* the agenda pages a source may serve: content and the links in it, each on
\* the document hosts (halifax.ca/media, cdn.halifax.ca) or not; or a failure
AgendaPages ==
    { [err |-> "bad status 404", html |-> "", text |-> "", links |-> <<>>],
      [err |-> "", html |-> "", text |-> "", links |-> <<>>],
      [err |-> "", html |-> "h1", text |-> "t1",
       links |-> <<[href |-> "w1", docs |-> FALSE], [href |-> "u1", docs |-> TRUE]>>] }

\* mutant: every href of the page is kept
RECURSIVE ContentURLs_AllLinks(_)
ContentURLs_AllLinks(links) ==
    IF links = <<>> THEN <<>>
    ELSE <<Head(links).href>> \o ContentURLs_AllLinks(Tail(links))

\* the hrefs on the document hosts, in the order of the page
RECURSIVE ContentURLs(_)
ContentURLs(links) ==
    IF links = <<>> THEN <<>>
    ELSE IF Head(links).docs THEN <<Head(links).href>> \o ContentURLs(Tail(links))
    ELSE ContentURLs(Tail(links))

\* Client.Agenda, EscribeClient.Agenda on a page that was served
Agenda(page) ==
    [ContentHTML |-> page.html, ContentText |-> page.text,
     ContentURLs |-> ContentURLs(page.links)]

\* mutant: the cutoff is taken from the versions' observed times
Cutoff_FromVersions(s, t) ==
    LET maxObserved ==
            timeValue_Scan(MaxOf({v.observed : v \in Rows(s.meeting_versions)}))
    IN  IF maxObserved # ZeroTime
        THEN AddDate(maxObserved, -8, 0)
        ELSE AddDate(t, -1, 0)

\* cutoff: a month before now, or 8 months before max(last_observed) of meetings
Cutoff(s, t) ==
    LET maxObserved ==
            timeValue_Scan(MaxOf({r.last_observed : r \in Rows(s.meetings)}))
    IN  IF maxObserved # ZeroTime
        THEN AddDate(maxObserved, -8, 0)
        ELSE AddDate(t, -1, 0)

\* mutant: the age is taken from the time of the last version
Fresh_FromUpdated(s, m, t, rnd) ==
    LET rows == {r \in Rows(s.meetings) : r.id = m.ID}
    IN  IF rows = {} THEN FALSE
        ELSE IsWithin(t, timeValue_Scan((CHOOSE r \in rows : TRUE).updated),
                      Threshold(m.Event.Date, t, rnd))

\* isMeetingFresh(ctx, db, m) at time t, rnd being what rand.N(jitter) returns
Fresh(s, m, t, rnd) ==
    LET rows == {r \in Rows(s.meetings) : r.id = m.ID}
    IN  IF rows = {} THEN FALSE
        ELSE IsWithin(t, timeValue_Scan((CHOOSE r \in rows : TRUE).last_observed),
                      Threshold(m.Event.Date, t, rnd))

\* mutant: a meeting before the cutoff is skipped and the loop goes on
RECURSIVE ScanBatch_Continue(_, _, _, _)
ScanBatch_Continue(batch, i, need, r) ==
    IF i > Len(batch) THEN [need |-> need, out |-> "page"]
    ELSE IF batch[i].Event.Date < r.cutoff
    THEN ScanBatch_Continue(batch, i + 1, need, r)
    ELSE IF r.qfail = i THEN [need |-> need, out |-> "error"]
    ELSE IF Fresh(r.db, batch[i], r.now, r.rnds[i])
    THEN ScanBatch_Continue(batch, i + 1, need, r)
    ELSE ScanBatch_Continue(batch, i + 1, Append(need, [m |-> batch[i], a |-> r.c]), r)

\* the loop over the meetings of one batch, from the i-th on: `break outer` at
\* the first one before the cutoff, an error when the freshness query fails
\* (at the r.qfail-th), the others appended to needMeetings unless fresh
RECURSIVE ScanBatch(_, _, _, _)
ScanBatch(batch, i, need, r) ==
    IF i > Len(batch) THEN [need |-> need, out |-> "page"]
    ELSE IF batch[i].Event.Date < r.cutoff THEN [need |-> need, out |-> "break"]
    ELSE IF r.qfail = i THEN [need |-> need, out |-> "error"]
    ELSE IF Fresh(r.db, batch[i], r.now, r.rnds[i])
    THEN ScanBatch(batch, i + 1, need, r)
    ELSE ScanBatch(batch, i + 1, Append(need, [m |-> batch[i], a |-> r.c]), r)

\* a crawl run is in progress
Crawling == "cutoff" \in DOMAIN run

\* the frame processMeetings leaves when it returns, with the run as it ended
CrawlFrame(ret, err, r) ==
    [op |-> "processMeetings", pc |-> "done", ret |-> ret, err |-> err, run |-> r]

\* the time from one run of the hourly job to the next: a little under the
\* hour, or the hour
RunGaps == {Hour - 3, Hour}

\* the clock between runs: the time to the next run passes, once per counted call
CrawlTick ==
    /\ Idle
    /\ run = NoRun
    /\ now < Today + calls * Hour
    /\ \E gap \in RunGaps : now' = now + gap
    /\ UNCHANGED <<db, tx, call, run, calls>>

\* the run's first lines: the cutoff.  queryOK: select max(last_observed) succeeds
processMeetings(queryOK) ==
    /\ Idle
    /\ run = NoRun
    /\ calls < MaxCalls
    /\ IF queryOK
       THEN /\ run' = [active |-> FALSE, pc |-> "wait", cutoff |-> Cutoff(db, now),
                       fromEmpty |-> db = initDB,
                       c |-> 1, token |-> "", permit |-> FALSE, used |-> <<>>,
                       batch |-> <<>>, lerr |-> "", listed |-> 0,
                       need |-> <<>>, k |-> 1,
                       fetched |-> <<>>, links |-> <<>>, saved |-> <<>>]
            /\ call' = CrawlFrame("none", "", NoRun)
       ELSE /\ run' = NoRun
            /\ call' = CrawlFrame("error", "select max meeting_versions observed", NoRun)
    /\ UNCHANGED <<db, tx, now, calls>>

\* the run returns ret
CrawlReturns(ret, err, r) ==
    /\ run' = NoRun
    /\ call' = CrawlFrame(ret, err, r)

\* mutant: the request is sent without a call of the limiter
Client_List_Wait_NoLimiter ==
    /\ Crawling
    /\ Idle
    /\ run.pc = "wait"
    /\ Len(run.used) < MaxLists
    /\ IF Clients[run.c] = "escribe" /\ run.token # ""
       THEN CrawlReturns("error", "listing meetings", run)
       ELSE run' = [run EXCEPT !.pc = "list"] /\ UNCHANGED call
    /\ UNCHANGED <<db, tx, now, calls>>

\* c.List(ctx, token) up to c.Limiter(): the request is made (escribe has no
\* pages) and the limiter waited for
Client_List_Wait ==
    /\ Crawling
    /\ Idle
    /\ run.pc = "wait"
    /\ Len(run.used) < MaxLists
    /\ IF Clients[run.c] = "escribe" /\ run.token # ""
       THEN CrawlReturns("error", "listing meetings", run)
       ELSE run' = [run EXCEPT !.pc = "list", !.permit = TRUE] /\ UNCHANGED call
    /\ UNCHANGED <<db, tx, now, calls>>

\* the record of the run after a batch: on to the next page, or to the next
\* source, or to the queue after the last source
AfterBatch(r, resp, scan) ==
    LET r1 == [r EXCEPT !.permit = FALSE,
                        !.used = Append(@, <<r.c, r.token>>),
                        !.batch = resp.meetings,
                        !.lerr = resp.err,
                        !.listed = @ + Len(resp.meetings),
                        !.need = scan.need]
    IN  IF scan.out = "page" /\ resp.next # ""
        THEN [r1 EXCEPT !.pc = "wait", !.token = resp.next]
        ELSE IF r.c < Len(Clients)
        THEN [r1 EXCEPT !.pc = "wait", !.token = "", !.c = @ + 1]
        ELSE [r1 EXCEPT !.pc = "queue", !.token = "", !.c = @ + 1]

\* mutant: a List error is logged and the run goes on to the next source
Client_List_SkipsSource(resp, rnds, qfail) ==
    LET r == [run EXCEPT !.permit = FALSE, !.used = Append(@, <<run.c, run.token>>)]
        scan == ScanBatch(resp.meetings, 1, run.need,
                          [c |-> run.c, cutoff |-> run.cutoff, db |-> db,
                           now |-> now, rnds |-> rnds, qfail |-> qfail])
    IN  /\ Crawling
        /\ Idle
        /\ run.pc = "list"
        /\ IF resp.err # ""
           THEN /\ run' = AfterBatch(run, resp, [need |-> run.need, out |-> "page"])
                /\ UNCHANGED call
           ELSE IF scan.out = "error"
           THEN CrawlReturns("error", "checking freshness", r)
           ELSE run' = AfterBatch(run, resp, scan) /\ UNCHANGED call
        /\ UNCHANGED <<db, tx, now, calls>>

\* http.DefaultClient.Do of c.List and the loop over its batch.  resp: what the
\* source answers; rnds: what rand.N returns for each meeting; qfail: the
\* meeting at which the freshness query fails (0: none)
Client_List(resp, rnds, qfail) ==
    LET r == [run EXCEPT !.permit = FALSE, !.used = Append(@, <<run.c, run.token>>)]
        scan == ScanBatch(resp.meetings, 1, run.need,
                          [c |-> run.c, cutoff |-> run.cutoff, db |-> db,
                           now |-> now, rnds |-> rnds, qfail |-> qfail])
    IN  /\ Crawling
        /\ Idle
        /\ run.pc = "list"
        /\ IF resp.err # ""
           THEN CrawlReturns("error", "listing meetings", r)
           ELSE IF scan.out = "error"
           THEN CrawlReturns("error", "checking freshness", r)
           ELSE run' = AfterBatch(run, resp, scan) /\ UNCHANGED call
        /\ UNCHANGED <<db, tx, now, calls>>

\* mutant: a meeting without agenda URL is passed over
processMeeting_SkipsBare ==
    /\ Crawling
    /\ Idle
    /\ run.pc = "queue"
    /\ IF run.k > Len(run.need)
       THEN CrawlReturns("ok", "", run)
       ELSE IF URL(run.need[run.k].m.URLs, "agenda") = ""
       THEN run' = [run EXCEPT !.k = @ + 1, !.saved = Append(@, run.k),
                               !.fetched = Append(@, run.k)]
            /\ UNCHANGED call
       ELSE run' = [run EXCEPT !.pc = "agenda", !.permit = TRUE] /\ UNCHANGED call
    /\ UNCHANGED <<db, tx, now, calls>>

\* the queue: the run returns nil after the last meeting; processMeeting of the
\* k-th up to the limiter of a.Agenda
processMeeting ==
    /\ Crawling
    /\ Idle
    /\ run.pc = "queue"
    /\ IF run.k > Len(run.need)
       THEN CrawlReturns("ok", "", run)
       ELSE IF URL(run.need[run.k].m.URLs, "agenda") = ""
       THEN CrawlReturns("error", "no agenda URL", run)
       ELSE run' = [run EXCEPT !.pc = "agenda", !.permit = TRUE] /\ UNCHANGED call
    /\ UNCHANGED <<db, tx, now, calls>>

\* mutant: a meeting whose agenda cannot be fetched is skipped
processMeeting_Agenda_Skips(page) ==
    /\ Crawling
    /\ Idle
    /\ run.pc = "agenda"
    /\ IF page.err # "" \/ page.html = ""
       THEN /\ run' = [run EXCEPT !.permit = FALSE, !.fetched = Append(@, run.k),
                                  !.pc = "queue", !.k = @ + 1]
            /\ UNCHANGED call
       ELSE /\ run' = [run EXCEPT !.permit = FALSE, !.fetched = Append(@, run.k),
                                  !.links = page.links, !.pc = "save"]
            /\ call' = [op |-> "saveMeeting", pc |-> "begin", ret |-> "none",
                        m |-> run.need[run.k].m, agenda |-> Agenda(page),
                        observed |-> now,
                        contentID |-> Sum224(Agenda(page).ContentHTML \o "\n"),
                        ra |-> 0, repeat |-> FALSE]
    /\ UNCHANGED <<db, tx, now, calls>>

\* http.DefaultClient.Do of a.Agenda, and the entry of saveMeeting(db, m,
\* agenda, time.Now()).  page: what the source serves;
\* the run keeps the links of the page served last
processMeeting_Agenda(page) ==
    /\ Crawling
    /\ Idle
    /\ run.pc = "agenda"
    /\ IF page.err # "" \/ page.html = ""
       THEN CrawlReturns("error", "fetching agenda",
                         [run EXCEPT !.permit = FALSE, !.fetched = Append(@, run.k)])
       ELSE /\ run' = [run EXCEPT !.permit = FALSE, !.fetched = Append(@, run.k),
                                  !.links = page.links, !.pc = "save"]
            /\ call' = [op |-> "saveMeeting", pc |-> "begin", ret |-> "none",
                        m |-> run.need[run.k].m, agenda |-> Agenda(page),
                        observed |-> now,
                        contentID |-> Sum224(Agenda(page).ContentHTML \o "\n"),
                        ra |-> 0, repeat |-> FALSE]
    /\ UNCHANGED <<db, tx, now, calls>>

\* saveMeeting returned nil: on to the next meeting of the queue
processMeeting_Saved ==
    /\ Crawling
    /\ Idle
    /\ run.pc = "save"
    /\ run' = [run EXCEPT !.saved = Append(@, run.k), !.pc = "queue", !.k = @ + 1]
    /\ UNCHANGED <<db, tx, call, now, calls>>

NextCrawl ==
    \/ CrawlTick
    \/ \E queryOK \in BOOLEAN : processMeetings(queryOK)
    \/ Client_List_Wait
    \/ /\ Crawling
       /\ run.pc = "list"
       /\ \E resp \in ListResponses(Clients[run.c], run.token),
             rnds \in [1..2 -> RandN], qfail \in 0..2 :
                Client_List(resp, rnds, qfail)
    \/ processMeeting
    \/ \E page \in AgendaPages : processMeeting_Agenda(page)
    \/ saveMeeting_Begin
    \/ saveMeeting_InsertContent
    \/ saveMeeting_InsertSearch
    \/ saveMeeting_UpsertMeeting
    \/ saveMeeting_InsertVersion
    \/ saveMeeting_UpdateObserved
    \/ saveMeeting_URLs
    \/ saveMeeting_Commit
    \/ processMeeting_Saved
    \/ \E lookPathOK, queryOK \in BOOLEAN :
            run = NoRun /\ processExternalContentURLs(lookPathOK, queryOK)
    \/ processURL
    \/ \E resp \in Responses : processURL_fetchURLContent(resp)
    \/ processURL_saveErr
    \/ processURL_contentExists
    \/ processURL_processPDF
    \/ processURL_Begin
    \/ processURL_saveContent
    \/ processURL_UpdateURL
    \/ processURL_Commit
    \/ processExternalContentURLs_OutOfTime
    \/ processExternalContentURLs_Done
    \/ StatementFails
    \/ Crash

InitCrawl ==
    /\ db = initDB
    /\ tx = NoTx
    /\ call = NoCall
    /\ now = Today
    /\ run = NoRun
    /\ calls = 0

SpecCrawl == InitCrawl /\ [][NextCrawl]_vars

----------------------------------------------------------------------------
(* The pipeline invoked again and again on a store with a backlog, no meeting *)
(* being saved in between: the scheduled job, `-only urls`.  The clock stands *)
(* still and the invocations are not counted, so the runs may go on for ever. *)

\* the stores the runs start from: one or two URLs registered, none fetched
Backlogs ==
    { SaveAll(initDB, ListedMeeting("m1", ""), A1, 1),
      SaveAll(initDB, ListedMeeting("m1", ""), A2, 1) }

InitBacklog ==
    /\ db \in Backlogs
    /\ tx = NoTx
    /\ call = NoCall
    /\ now = 2
    /\ run = NoRun
    /\ calls = 0

\* the next invocation of the job: checkPDF, then the backlog query, up to the loop
processExternalContentURLs_Scheduled(lookPathOK, queryOK) ==
    LET cerr == checkPDF(lookPathOK)
        err == IF cerr # "" THEN cerr
               ELSE IF ~queryOK THEN "unfetched urls: query failed"
               ELSE ""
    IN  /\ Idle
        /\ ~run.active
        /\ call' = [op |-> "processExternalContentURLs", pc |-> "done",
                    ret |-> IF err = "" THEN "none" ELSE "error",
                    lookPathOK |-> lookPathOK, err |-> err]
        /\ run' = IF err = ""
                  THEN [active |-> TRUE, urls |-> unfetchedURLs(db), i |-> 1]
                  ELSE NoRun
        /\ UNCHANGED <<db, tx, now, calls>>

\* limiter.Wait(ctx) returns an error at the head of the loop: the run returns it
processExternalContentURLs_WaitFails ==
    /\ Idle
    /\ run.active
    /\ run.i <= Len(run.urls)
    /\ run' = NoRun
    /\ call' = [op |-> "processExternalContentURLs", pc |-> "done", ret |-> "error",
                lookPathOK |-> TRUE, err |-> "process: rate: Wait"]
    /\ UNCHANGED <<db, tx, now, calls>>

\* the steps of a run on which nothing fails
Scheduled == processExternalContentURLs_Scheduled(TRUE, TRUE)

Fetches == \E resp \in Responses : processURL_fetchURLContent(resp)

NextBacklog ==
    \/ \E lookPathOK, queryOK \in BOOLEAN :
            processExternalContentURLs_Scheduled(lookPathOK, queryOK)
    \/ processExternalContentURLs_WaitFails
    \/ processURL
    \/ \E resp \in Responses : processURL_fetchURLContent(resp)
    \/ processURL_saveErr
    \/ processURL_contentExists
    \/ processURL_processPDF
    \/ processURL_Begin
    \/ processURL_saveContent
    \/ processURL_UpdateURL
    \/ processURL_Commit
    \/ processExternalContentURLs_OutOfTime
    \/ processExternalContentURLs_Done
    \/ StatementFails
    \/ Crash

\* the job is invoked again after every return, and no failure (a missing tool,
\* a store or limiter error, a stop of the process) lasts for ever: a step that
\* can be taken again and again is taken
FairBacklog ==
    /\ SF_vars(Scheduled)
    /\ SF_vars(processURL)
    /\ SF_vars(Fetches)
    /\ SF_vars(processURL_saveErr)
    /\ SF_vars(processURL_contentExists)
    /\ SF_vars(processURL_processPDF)
    /\ SF_vars(processURL_Begin)
    /\ SF_vars(processURL_saveContent)
    /\ SF_vars(processURL_UpdateURL)
    /\ SF_vars(processURL_Commit)

SpecBacklog == InitBacklog /\ [][NextBacklog]_vars /\ FairBacklog

----------------------------------------------------------------------------
(* Properties of saveMeeting *)

\* the call of `call` is a saveMeeting call that returned nil
SaveReturnedOK == call.op = "saveMeeting" /\ call.pc = "done" /\ call.ret = "ok"

\* this step is the successful commit of the saveMeeting call in flight
SaveCommits ==
    /\ call.op = "saveMeeting"
    /\ call.pc = "commit"
    /\ call'.pc = "done"
    /\ call'.ret = "ok"

\* the columns of a version's attribute tuple
TupleCols == {"schedule_note", "agenda_url", "minutes_url", "video_url",
              "agenda_content_id"}

\* rows i of meeting_versions that belong to meeting id and carry the tuple of row v
VersionsWith(s, id, v) ==
    {i \in DOMAIN s.meeting_versions :
        /\ s.meeting_versions[i].meeting_id = id
        /\ \A c \in TupleCols : s.meeting_versions[i][c] = v[c]}

MeetingRows(s, id) == {i \in DOMAIN s.meetings : s.meetings[i].id = id}

AgendaContentRows(s, id) ==
    {i \in DOMAIN s.meeting_agenda_content : s.meeting_agenda_content[i].id = id}

\* C1: when saveMeeting is called a second time with the (meeting, agenda,
\* observedAt) of the call that just committed, its commit changes no table,
\* and the store then holds exactly one meeting_versions row of that meeting
\* with the saved tuple and exactly one meeting_agenda_content row with the
\* content hash.
C1_SaveTwiceIsIdempotent ==
    [][ (SaveCommits /\ call.repeat) =>
            /\ db' = db
            /\ Cardinality(VersionsWith(db', call.m.ID,
                    VersionRow(call.m, call.observed, call.contentID))) = 1
            /\ Cardinality(AgendaContentRows(db', call.contentID)) = 1 ]_vars

\* C1 witness: the second of two identical calls has committed
C1_Witness == SaveReturnedOK /\ call.repeat

\* C2: while a saveMeeting call is in flight, no step other than its
\* successful commit changes the committed store, and when the call ends
\* without committing (a statement, Begin or Commit fails, or the process
\* stops) its transaction is dropped: every table is as before the call.
C2_SaveIsAtomic ==
    [][ (call.op = "saveMeeting" /\ call.pc # "done" /\ ~SaveCommits) =>
            /\ db' = db
            /\ (call'.pc = "done" => tx' = NoTx) ]_vars

\* C2 witness: a saveMeeting call failed, or its process stopped, after its
\* transaction had written to the store
C2_Witness ==
    /\ call.op = "saveMeeting"
    /\ call.pc = "done"
    /\ call.ret \in {"error", "crashed"}
    /\ call.dirty
    /\ tx = NoTx

\* no two meeting_versions rows of a meeting carry the same tuple
VersionsUnique(s) ==
    \A i, j \in DOMAIN s.meeting_versions :
        i \in VersionsWith(s, s.meeting_versions[j].meeting_id, s.meeting_versions[j])
            => i = j

\* C3: no meeting ever has two meeting_versions rows with the same (note,
\* agenda URL, minutes URL, video URL, content reference); a committed save
\* whose tuple the meeting already has leaves meeting_versions as it is, and a
\* committed save whose tuple is new appends exactly its own row.
C3_VersionsUniquePerTuple ==
    /\ [] VersionsUnique(db)
    /\ [][ SaveCommits =>
            LET row == VersionRow(call.m, call.observed, call.contentID)
            IN  IF VersionsWith(db, call.m.ID, row) # {}
                THEN db'.meeting_versions = db.meeting_versions
                ELSE db'.meeting_versions = Append(db.meeting_versions, row) ]_vars

\* C3 witness: a save that repeats an earlier tuple of its meeting at a later
\* time has returned nil, and the meeting has another tuple too
C3_Witness ==
    /\ SaveReturnedOK
    /\ \E i \in DOMAIN db.meeting_versions :
        /\ i \in VersionsWith(db, call.m.ID,
                    VersionRow(call.m, call.observed, call.contentID))
        /\ db.meeting_versions[i].observed < call.observed
    /\ \E i \in DOMAIN db.meeting_versions :
        /\ db.meeting_versions[i].meeting_id = call.m.ID
        /\ i \notin VersionsWith(db, call.m.ID,
                    VersionRow(call.m, call.observed, call.contentID))

\* C4: once saveMeeting(m, agenda, observedAt) has returned nil, the meeting's
\* last_observed is observedAt, whether or not the call wrote a version.
C4_LastObservedIsObservedAt ==
    SaveReturnedOK =>
        /\ Cardinality(MeetingRows(db, call.m.ID)) = 1
        /\ \A i \in MeetingRows(db, call.m.ID) :
            db.meetings[i].last_observed = call.observed

\* C4 witness: a save returned nil without writing a version: the meeting's
\* only row with the saved tuple was observed earlier
C4_Witness ==
    /\ SaveReturnedOK
    /\ \A i \in VersionsWith(db, call.m.ID,
                    VersionRow(call.m, call.observed, call.contentID)) :
        db.meeting_versions[i].observed < call.observed

\* C5: in every committed state, each meeting's updated is the greatest
\* observed among the meeting_versions rows of that same meeting.
C5_UpdatedIsMaxOwnVersion ==
    \A i \in DOMAIN db.meetings :
        LET own == {v \in Rows(db.meeting_versions) :
                        v.meeting_id = db.meetings[i].id}
        IN  /\ own # {}
            /\ db.meetings[i].updated \in {v.observed : v \in own}
            /\ \A v \in own : v.observed <= db.meetings[i].updated

\* C5 witness: two meetings whose updated differ, one of them observed again
\* after its last version
C5_Witness ==
    \E i, j \in DOMAIN db.meetings :
        /\ db.meetings[i].updated < db.meetings[j].updated
        /\ db.meetings[i].updated < db.meetings[i].last_observed
        /\ \E v \in Rows(db.meeting_versions) :
            v.meeting_id = db.meetings[j].id /\ v.observed > db.meetings[i].last_observed

----------------------------------------------------------------------------
(* Properties of the store across saveMeeting and the pipeline *)

Range(q) == {q[i] : i \in DOMAIN q}

\* a search table holds, for each row of its content table, exactly one row
\* with that rowid, carrying the columns `cols` of the content row, and no
\* row with another rowid
Mirrors(search, content, cols) ==
    /\ \A i \in DOMAIN content :
        /\ Cardinality({j \in DOMAIN search : search[j].rowid = i}) = 1
        /\ \A j \in DOMAIN search :
            search[j].rowid = i => \A c \in cols : search[j][c] = content[i][c]
    /\ \A j \in DOMAIN search : search[j].rowid \in DOMAIN content

\* C6: in every committed state each search table holds exactly one row per
\* row of its content table (agenda content and external content alike), with
\* the text stored at the content row's first insert.  The same holds of a
\* transaction's working copy at every statement boundary but the one between
\* a first content insert and its index insert.
C6_OneIndexRowPerContentRow ==
    /\ Mirrors(db.meeting_agenda_content_search, db.meeting_agenda_content, {"text"})
    /\ Mirrors(db.external_content_search, db.external_content, {"title", "text"})
    /\ (tx.open /\ call.pc # "sq") =>
        /\ Mirrors(tx.s.meeting_agenda_content_search,
                   tx.s.meeting_agenda_content, {"text"})
        /\ Mirrors(tx.s.external_content_search,
                   tx.s.external_content, {"title", "text"})

\* C6 witness: a save of an agenda whose hash was already stored has returned
\* nil, and two URLs were fetched with the same body
C6_Witness ==
    /\ SaveReturnedOK
    /\ call.ra = 0
    /\ \E i, j \in DOMAIN db.external_content_urls :
        /\ i # j
        /\ db.external_content_urls[i].external_content_id # NULL
        /\ db.external_content_urls[i].external_content_id
                = db.external_content_urls[j].external_content_id

IDs(t) == {r.id : r \in Rows(t)}

\* C7: in every committed state each content reference of meetings and
\* meeting_versions names a meeting_agenda_content row, each version names a
\* meeting, each link names a meeting, an agenda content row and a URL row, and
\* each content reference of external_content_urls names an external_content row.
C7_ReferentialIntegrity ==
    /\ \A r \in Rows(db.meetings) :
        r.agenda_content_id \in IDs(db.meeting_agenda_content)
    /\ \A v \in Rows(db.meeting_versions) :
        /\ v.meeting_id \in IDs(db.meetings)
        /\ v.agenda_content_id \in IDs(db.meeting_agenda_content)
    /\ \A l \in Rows(db.meeting_external_content_urls) :
        /\ l.meeting_id \in IDs(db.meetings)
        /\ l.agenda_content_id \in IDs(db.meeting_agenda_content)
        /\ l.external_content_url \in {r.url : r \in Rows(db.external_content_urls)}
    /\ \A r \in Rows(db.external_content_urls) :
        r.external_content_id # NULL => r.external_content_id \in IDs(db.external_content)

\* C7 witness: links exist and two URLs reference different external content rows
C7_Witness ==
    /\ db.meeting_external_content_urls # <<>>
    /\ \E q, r \in Rows(db.external_content_urls) :
        /\ q.external_content_id # NULL
        /\ r.external_content_id # NULL
        /\ q.external_content_id # r.external_content_id

\* every row of table a is row of b at the same rowid, unchanged
Extends(b, a) == Len(a) <= Len(b) /\ \A i \in DOMAIN a : b[i] = a[i]

\* C8: no step changes or removes a stored meeting_agenda_content or
\* external_content row: each step leaves every row of both tables as it is.
C8_ContentRowsImmutable ==
    [][ /\ Extends(db'.meeting_agenda_content, db.meeting_agenda_content)
        /\ Extends(db'.external_content, db.external_content) ]_vars

\* C8 witness: a save returned nil whose agenda has the hash of a stored row
\* and another text than that row
C8_Witness ==
    /\ SaveReturnedOK
    /\ \E r \in Rows(db.meeting_agenda_content) :
        r.id = call.contentID /\ r.text # call.agenda.ContentText

----------------------------------------------------------------------------
(* Properties of the pipeline *)

\* URLs whose row has a fetched timestamp
Terminal(s) == {r.url : r \in {q \in Rows(s.external_content_urls) : q.fetched # NullNum}}

\* URLs the run in progress has yet to process, the one in process included
Pending == IF run.active THEN {run.urls[j] : j \in run.i..Len(run.urls)} ELSE {}

\* the URL processURL is at work on
InProcess == IF call.op = "processURL" /\ call.pc # "done" THEN {call.u} ELSE {}

\* C9: a URL whose row has a fetched timestamp is not returned by the backlog
\* query, is not in the rest of a run's batch and is not being fetched, and no
\* step (a save that lists the URL again included) changes its row.
C9_TerminalNeverRefetched ==
    /\ [] (Terminal(db) \cap (Range(unfetchedURLs(db)) \cup Pending \cup InProcess) = {})
    /\ [][ \A i \in DOMAIN db.external_content_urls :
            db.external_content_urls[i].fetched # NullNum =>
                /\ i \in DOMAIN db'.external_content_urls
                /\ db'.external_content_urls[i] = db.external_content_urls[i] ]_vars

\* C9 witness: a save that lists a fetched URL again has returned nil while
\* the backlog is not empty
C9_Witness ==
    /\ SaveReturnedOK
    /\ Range(call.agenda.ContentURLs) \cap Terminal(db) # {}
    /\ unfetchedURLs(db) # <<>>

\* C10: in every committed state a URL row with a fetched timestamp has a
\* content reference or an error, not both, and a row without has neither.
C10_FetchedHasContentXorError ==
    \A r \in Rows(db.external_content_urls) :
        IF r.fetched # NullNum
        THEN (r.external_content_id # NULL) # (r.error # NULL)
        ELSE r.external_content_id = NULL /\ r.error = NULL

\* C10 witness: one URL was fetched with an error, another with content
C10_Witness ==
    \E q, r \in Rows(db.external_content_urls) :
        /\ q.fetched # NullNum /\ q.error # NULL
        /\ r.fetched # NullNum /\ r.external_content_id # NULL

----------------------------------------------------------------------------
(* Properties of processURL *)

\* the row of URL u in external_content_urls
URLRow(s, u) == CHOOSE r \in Rows(s.external_content_urls) : r.url = u

\* the call of `call` is a processURL call that returned nil
ProcessURLReturnedOK == call.op = "processURL" /\ call.pc = "done" /\ call.ret = "ok"

\* this step ends the call in flight with an error or a stop of the process,
\* the committed store untouched
FailsClean == call'.pc = "done" /\ call'.ret \in {"error", "crashed"} /\ db' = db

\* C11: when fetchURLContent returns an error, processURL goes to saveErr
\* without touching the store, and, unless that update fails or the process
\* stops, it sets the row's fetched time and error, leaves its content
\* reference NULL, adds no external_content row, returns nil, and the run goes
\* on to the next URL of its batch.
C11_FetchErrorIsSavedAndSkipped ==
    /\ [][ (call.op = "processURL" /\ call.pc = "fetch" /\ ~FailsClean) =>
            /\ db' = db
            /\ (call'.ferr # "") = (call'.pc = "saveErr") ]_vars
    /\ [][ (call.op = "processURL" /\ call.pc = "saveErr" /\ ~FailsClean) =>
            /\ call'.pc = "done" /\ call'.ret = "ok"
            /\ URLRow(db', call.u).fetched = timeValue_Value(call.now)
            /\ URLRow(db', call.u).error = call.ferr
            /\ URLRow(db', call.u).external_content_id = NULL
            /\ db'.external_content = db.external_content
            /\ db'.external_content_search = db.external_content_search
            /\ run'.active /\ run'.urls = run.urls /\ run'.i = run.i + 1 ]_vars

\* C11 witness: the first URL of a batch failed to fetch and the second is
\* being fetched
C11_Witness ==
    /\ call.op = "processURL"
    /\ call.pc = "fetch"
    /\ run.active
    /\ run.i = 2
    /\ URLRow(db, run.urls[1]).error # NULL

\* C12: when processPDF has returned an error for a fetched PDF of a hash not
\* yet stored, processURL leaves the URL row fetched with an error and without
\* content reference.  (The test that follows processPDF reads err, which is
\* nil there, and not perr: this does not hold of the program.)
C12_PDFFailureIsSavedAsError ==
    (ProcessURLReturnedOK /\ call.perr # "") =>
        /\ URLRow(db, call.u).fetched # NullNum
        /\ URLRow(db, call.u).error # NULL
        /\ URLRow(db, call.u).external_content_id = NULL

\* C13: when processPDF returns an error, processURL goes on with an empty
\* title and text: unless a statement fails or the process stops, it commits
\* an external_content row (id, "", "") that the URL row references, returns
\* nil, and the run goes on to the next URL of its batch.
C13_PDFFailureDegradesToEmpty ==
    /\ [][ (call.op = "processURL" /\ call.pc = "pdf" /\ ~FailsClean) =>
            /\ db' = db
            /\ call'.pc = "begin"
            /\ call'.perr # "" => call'.c.title = "" /\ call'.c.text = "" ]_vars
    /\ [][ (call.op = "processURL" /\ call.pc = "commit" /\ ~FailsClean) =>
            (call.perr # "" =>
                /\ call'.pc = "done" /\ call'.ret = "ok"
                /\ [id |-> call.c.id, title |-> "", text |-> ""]
                        \in Rows(db'.external_content)
                /\ URLRow(db', call.u).external_content_id = call.c.id
                /\ run'.active /\ run'.urls = run.urls /\ run'.i = run.i + 1) ]_vars

\* C13 witness: the first URL of a batch was a PDF whose extraction failed, its
\* content row is empty, and the second URL is being fetched
C13_Witness ==
    /\ call.op = "processURL"
    /\ call.pc = "fetch"
    /\ run.active
    /\ run.i = 2
    /\ URLRow(db, run.urls[1]).content_type = "application/pdf"
    /\ \E r \in Rows(db.external_content) :
        /\ r.id = URLRow(db, run.urls[1]).external_content_id
        /\ r.title = ""
        /\ r.text = ""

\* rows of external_content with the given id
ContentRows(s, id) == {i \in DOMAIN s.external_content : s.external_content[i].id = id}

\* C14: a processURL call that commits leaves its URL row referencing the hash
\* of the fetched bytes, with exactly one external_content row of that id, the
\* row every other URL whose body had these bytes references; and in every
\* committed state each content reference of a URL row names exactly one row.
C14_SameBytesOneContentRow ==
    /\ [] (\A r \in Rows(db.external_content_urls) :
            r.external_content_id # NULL =>
                Cardinality(ContentRows(db, r.external_content_id)) = 1)
    /\ [][ (call.op = "processURL" /\ call.pc = "commit" /\ ~FailsClean) =>
            /\ URLRow(db', call.u).external_content_id = Sum224(call.uc.f)
            /\ Cardinality(ContentRows(db', Sum224(call.uc.f))) = 1
            /\ \A q \in Rows(db.external_content_urls) :
                q.external_content_id = Sum224(call.uc.f) =>
                    URLRow(db', q.url).external_content_id
                        = URLRow(db', call.u).external_content_id ]_vars

\* C14 witness: a URL was fetched with the bytes another URL had been fetched
\* with, and the call has returned nil
C14_Witness ==
    /\ ProcessURLReturnedOK
    /\ call.ferr = ""
    /\ call.exists
    /\ \E q \in Rows(db.external_content_urls) :
        /\ q.url # call.u
        /\ q.external_content_id = Sum224(call.uc.f)
        /\ URLRow(db, call.u).external_content_id = Sum224(call.uc.f)

\* the tables of the store other than external_content_urls
OtherTables == DOMAIN initDB \ {"external_content_urls"}

\* C15: when the hash of the fetched body names an external_content row,
\* processURL does not call processPDF, and its commit changes nothing but the
\* URL's own row, in which it sets the fetch metadata, a NULL error and the
\* reference to the existing content row.
C15_ExistingContentOnlyLinks ==
    /\ [] ((call.op = "processURL" /\ call.pc = "pdf") => ~contentExists(db, call.c.id))
    /\ [][ (/\ call.op = "processURL"
            /\ call.pc = "exists"
            /\ contentExists(db, call.c.id)
            /\ ~FailsClean) => (call'.exists /\ call'.pc = "begin") ]_vars
    /\ [][ (call.op = "processURL" /\ call.pc = "commit" /\ call.exists /\ ~FailsClean) =>
            /\ \A t \in OtherTables : db'[t] = db[t]
            /\ Len(db'.external_content_urls) = Len(db.external_content_urls)
            /\ \A i \in DOMAIN db.external_content_urls :
                LET old == db.external_content_urls[i]
                    new == db'.external_content_urls[i]
                IN  IF old.url # call.u THEN new = old
                    ELSE /\ new.url = old.url
                         /\ new.added = old.added
                         /\ new.fetched = timeValue_Value(call.now)
                         /\ new.content_type = call.uc.contentType
                         /\ new.size = call.uc.size
                         /\ new.last_modified = timeValue_Value(call.uc.lastModified)
                         /\ new.etag = (IF call.uc.etag = "" THEN NULL ELSE call.uc.etag)
                         /\ new.error = NULL
                         /\ new.external_content_id = call.c.id
                         /\ ContentRows(db, call.c.id) # {} ]_vars

\* C15 witness: a PDF whose hash was already stored has been processed and
\* the call has returned nil
C15_Witness ==
    /\ ProcessURLReturnedOK
    /\ call.ferr = ""
    /\ call.exists
    /\ call.uc.contentType = "application/pdf"

\* C18: processPDF is called for bodies of content type application/pdf only;
\* a processURL call for a fetched body of another content type and of a hash
\* not yet stored commits, unless a statement fails or the process stops, a
\* new external_content row (id, "", "") and the URL row fetched, with that
\* content reference and a NULL error, and returns nil.
C18_NonPDFStoredEmpty ==
    /\ [] ((call.op = "processURL" /\ call.pc = "pdf") =>
                call.uc.contentType = "application/pdf")
    /\ [][ (/\ call.op = "processURL"
            /\ call.pc = "commit"
            /\ ~call.exists
            /\ call.uc.contentType # "application/pdf"
            /\ ~FailsClean) =>
            /\ call'.pc = "done" /\ call'.ret = "ok"
            /\ ContentRows(db, call.c.id) = {}
            /\ Cardinality(ContentRows(db', call.c.id)) = 1
            /\ [id |-> call.c.id, title |-> "", text |-> ""] \in Rows(db'.external_content)
            /\ URLRow(db', call.u).fetched = timeValue_Value(call.now)
            /\ URLRow(db', call.u).external_content_id = call.c.id
            /\ URLRow(db', call.u).error = NULL ]_vars

\* C18 witness: an HTML body of a new hash has been processed and the call
\* has returned nil
C18_Witness ==
    /\ ProcessURLReturnedOK
    /\ call.ferr = ""
    /\ ~call.exists
    /\ call.uc.contentType = "text/html"

\* C19: when a run ends between two URLs of its batch (its time budget is
\* exceeded), it ends without an error, the last processURL call having
\* returned nil, and without a write to the store; every URL from its position
\* on is still unfetched and is returned by the backlog query.
C19_OutOfTimeYields ==
    [][ (Idle /\ run.active /\ ~run'.active /\ run.i <= Len(run.urls)) =>
            /\ call' = call
            /\ call.op = "processURL" /\ call.ret = "ok"
            /\ db' = db
            /\ \A j \in run.i..Len(run.urls) :
                /\ URLRow(db', run.urls[j]).fetched = NullNum
                /\ run.urls[j] \in Range(unfetchedURLs(db')) ]_vars

\* C19 witness: a run has ended after a URL that processURL returned nil for,
\* and the backlog is not empty
C19_Witness ==
    /\ ~run.active
    /\ ProcessURLReturnedOK
    /\ Terminal(db) # {}
    /\ unfetchedURLs(db) # <<>>

\* C20: when exec.LookPath misses a tool, processExternalContentURLs returns
\* checkPDF's error, whether or not the backlog query would have succeeded,
\* changes no row of the store and starts no run, so that no URL is fetched.
C20_MissingToolchainIsFatal ==
    /\ [][ (call'.op = "processExternalContentURLs" /\ ~call'.lookPathOK) =>
            /\ call'.ret = "error"
            /\ call'.err = checkPDF(FALSE)
            /\ db' = db
            /\ ~run'.active ]_vars
    /\ [] ((call.op = "processExternalContentURLs" /\ ~call.lookPathOK) => ~run.active)
    /\ [] ((call.op = "processURL" /\ call.pc # "done") => run.active)

\* C20 witness: a pipeline run has returned for a missing tool while the
\* backlog was not empty
C20_Witness ==
    /\ call.op = "processExternalContentURLs"
    /\ ~call.lookPathOK
    /\ call.ret = "error"
    /\ unfetchedURLs(db) # <<>>

----------------------------------------------------------------------------
(* Properties of processPDF *)

\* every character of str is white space
AllSpace(str) == \A i \in DOMAIN str : IsSpace(str[i])

\* t is str less the white space at its ends
IsTrimOf(t, str) ==
    /\ t # <<>> => ~IsSpace(t[1]) /\ ~IsSpace(t[Len(t)])
    /\ \E i, j \in 0..Len(str) :
        /\ i + j <= Len(str)
        /\ AllSpace(SubSeq(str, 1, i))
        /\ AllSpace(SubSeq(str, Len(str) - j + 1, Len(str)))
        /\ t = SubSeq(str, i + 1, Len(str) - j)

\* processPDF has returned a pdf and no error
PDFReturnedOK == call.op = "processPDF" /\ call.pc = "done" /\ call.err = ""

\* C16: pdftoppm and tesseract are invoked only when pdftotext was invoked
\* before and printed nothing but white space; for a text layer with another
\* character neither is invoked and the result is the trimmed text layer.
C16_OCROnlyAfterEmptyTextLayer ==
    /\ \A i \in DOMAIN call.invoked :
        call.invoked[i].tool \in {"pdftoppm", "tesseract"} =>
            /\ AllSpace(call.doc.layer)
            /\ \E j \in 1..(i - 1) : call.invoked[j].tool = "pdftotext"
    /\ (PDFReturnedOK /\ ~AllSpace(call.doc.layer)) =>
            /\ IsTrimOf(call.p.text, call.doc.layer)
            /\ call.p.text # <<>>

\* C16 witness: tesseract has run on a document whose text layer is white space
C16_Witness ==
    /\ call.doc.layer # <<>>
    /\ AllSpace(call.doc.layer)
    /\ \E i \in DOMAIN call.invoked : call.invoked[i].tool = "tesseract"

\* the recognized texts of pages 1..n, each followed by a newline, in page order
RECURSIVE PagesInOrder(_)
PagesInOrder(n) ==
    IF n = 0 THEN <<>> ELSE PagesInOrder(n - 1) \o OCRText(n) \o <<"\n">>

\* the page number fields tesseract was invoked with, in the order of invocation
OCRInvocations ==
    LET IsOCR(e) == e.tool = "tesseract"
        ocr == SelectSeq(call.invoked, IsOCR)
    IN  [i \in DOMAIN ocr |-> ocr[i].arg]

\* C17: when processPDF returns without error for a document whose text layer
\* is empty, tesseract was invoked once for each of the n pages, and the result
\* is the recognized page texts in ascending page order, each followed by a
\* newline, less the white space at the ends.
C17_OCRPagesInAscendingOrder ==
    (PDFReturnedOK /\ AllSpace(call.doc.layer)) =>
        /\ OCRInvocations = [k \in 1..call.doc.pages |-> PageNumber(k, call.doc.pages)]
        /\ IsTrimOf(call.p.text, PagesInOrder(call.doc.pages))

\* C17 witness: a document of more than ten pages without text layer has been
\* processed without error
C17_Witness ==
    /\ PDFReturnedOK
    /\ AllSpace(call.doc.layer)
    /\ call.doc.pages > 10


----------------------------------------------------------------------------
(* Properties of isMeetingFresh *)

FreshReturnedOK ==
    /\ call.op = "isMeetingFresh"
    /\ call.pc = "done"
    /\ call.ret = "ok"

\* the rows of the meeting asked about
FreshRows == {r \in Rows(db.meetings) : r.id = call.m.ID}

\* the last_observed of the meeting asked about
FreshLastObserved == timeValue_Scan((CHOOSE r \in FreshRows : TRUE).last_observed)

\* C21: isMeetingFresh returns false for a meeting with no recorded
\* last-observed; otherwise it returns true iff now - last-observed is less
\* than the threshold, and the threshold is 58 minutes when the meeting's
\* date is not earlier than now minus 7 days, every future date included,
\* and lies in [23h, 25h) when the date is earlier than that.
C21_ThresholdIsOneSided ==
    FreshReturnedOK =>
        IF FreshRows = {} \/ FreshLastObserved = ZeroTime
        THEN ~call.fresh
        ELSE /\ call.fresh <=> (now - FreshLastObserved < call.threshold)
             /\ IF call.m.Event.Date >= now - 7 * Day
                THEN call.threshold = 58
                ELSE call.threshold >= 23 * Hour /\ call.threshold < 25 * Hour

\* a meeting 30 days ahead, observed 57 minutes ago, is judged fresh on the
\* 58-minute threshold
C21_Witness ==
    /\ FreshReturnedOK
    /\ FreshRows # {}
    /\ call.m.Event.Date = now + 30 * Day
    /\ now - FreshLastObserved = 57
    /\ call.threshold = 58
    /\ call.fresh

\* C21 as stated: the threshold is 58 minutes only for a date within 7 days
\* of now on either side, and in [23h, 25h] for every other date, past or
\* future.
C21_ThresholdIsSymmetric ==
    (FreshReturnedOK /\ FreshRows # {} /\ FreshLastObserved # ZeroTime) =>
        /\ call.fresh <=> (now - FreshLastObserved < call.threshold)
        /\ IF /\ call.m.Event.Date >= now - 7 * Day
              /\ call.m.Event.Date <= now + 7 * Day
           THEN call.threshold = 58
           ELSE call.threshold >= 23 * Hour /\ call.threshold <= 25 * Hour

\* the meeting asked about is dated today and was last observed age minutes ago
TodayObserved(age) ==
    /\ FreshReturnedOK
    /\ FreshRows # {}
    /\ call.m.Event.Date = Today
    /\ now - FreshLastObserved = age

\* C22: for a meeting dated today, isMeetingFresh returns true when
\* last-observed = now - 57 minutes and false when last-observed is
\* now - 58, now - 59 or now - 61 minutes.
C22_BoundaryIs58Minutes ==
    /\ TodayObserved(57) => call.fresh
    /\ TodayObserved(58) => ~call.fresh
    /\ TodayObserved(59) => ~call.fresh
    /\ TodayObserved(61) => ~call.fresh

\* a meeting dated today and observed 59 minutes ago is judged not fresh
C22_Witness == TodayObserved(59) /\ ~call.fresh

\* C22 as stated: true at now - 59 minutes, false at now - 61 minutes.
C22_BoundaryIs60Minutes ==
    /\ TodayObserved(59) => call.fresh
    /\ TodayObserved(61) => ~call.fresh


----------------------------------------------------------------------------
(* Properties of the meeting ID *)

\* str begins with prefix
HasPrefix(str, prefix) ==
    Len(str) >= Len(prefix) /\ SubSeq(str, 1, Len(prefix)) = prefix

\* the path begins neither with a slash nor with the legacy prefix
RelativePath(P) == ~HasPrefix(P, <<"/">>) /\ ~HasPrefix(P, LegacyCouncil)

\* the row read last has been made a meeting
RowListed == call.op = "Client.List" /\ call.pc \in {"listed", "saved"}

\* the path has been saved under two of its forms
SavedTwice == call.op = "Client.List" /\ call.pc = "saved" /\ call.first # NoMeeting

\* C30: for every path P that begins neither with "/" nor with the legacy
\* prefix, the agenda URLs https://www.halifax.ca/city-hall/P,
\* https://www.halifax.ca/city-hallP and
\* http://legacycontent.halifax.ca/council/P all yield the ID P, and saves
\* under any two of them hit the same Meeting row.
C30_RelativePathIsTheID ==
    /\ (RowListed /\ RelativePath(call.P)) => call.m.ID = call.P
    /\ (SavedTwice /\ RelativePath(call.P)) =>
            /\ Len(db.meetings) = 1
            /\ db.meetings[1].id = call.P
            /\ db.meetings[1].agenda_url = call.agenda

\* a path saved under the form without the slash after the form with it:
\* one row, whose agenda URL is the second form
C30_Witness ==
    /\ SavedTwice
    /\ call.P = <<"b", "o", "a", "r", "d", "s">>
    /\ call.first.URLs[1].URL = AgendaForms(call.P)[1]
    /\ call.agenda = AgendaForms(call.P)[2]
    /\ Len(db.meetings) = 1
    /\ db.meetings[1].id = call.P

\* C30 as stated: for every path P the three forms yield the ID P.
C30_EveryPathIsTheID == RowListed => call.m.ID = call.P


----------------------------------------------------------------------------
(* Properties of processMeetings *)

\* the step on which a crawl run starts
CrawlStarts == run = NoRun /\ Crawling'

BatchListed == Crawling /\ run.pc = "list" /\ Crawling'

\* the positions of the batch listed last whose meeting is before the cutoff
BeforeCutoff(r) == {i \in DOMAIN r.batch : r.batch[i].Event.Date < r.cutoff}

\* the positions of the batch up to the first meeting before the cutoff
Consumed(r) ==
    IF BeforeCutoff(r) = {} THEN DOMAIN r.batch
    ELSE {i \in DOMAIN r.batch : \A j \in BeforeCutoff(r) : i < j}

\* the meetings the step appends to needMeetings
Enqueued == {run'.need[j].m : j \in (Len(run.need) + 1)..Len(run'.need)}

\* C24: as soon as a List batch of a source contains a meeting dated before
\* the cutoff, no further meeting of that source is enqueued and no further
\* List call is made on that source; no meeting dated before the cutoff is
\* ever enqueued, and a meeting dated exactly at the cutoff is not excluded.
C24_StopsAtCutoff ==
    /\ [](Crawling => \A j \in DOMAIN run.need : run.need[j].m.Event.Date >= run.cutoff)
    /\ [][BatchListed =>
            /\ SubSeq(run'.need, 1, Len(run.need)) = run.need
            /\ Enqueued \subseteq {run'.batch[i] : i \in Consumed(run')}
            /\ BeforeCutoff(run') # {} => run'.c = run.c + 1 /\ run'.token = ""
            /\ run'.c >= run.c
            /\ \A i \in Consumed(run') :
                    (/\ run'.batch[i].Event.Date = run.cutoff
                     /\ \A r \in Rows(db.meetings) : r.id # run'.batch[i].ID)
                    => run'.batch[i] \in Enqueued]_vars

\* the first page of halifax had a long past meeting before an upcoming one:
\* nothing of it is enqueued, its next page is not asked for, and the run
\* has gone on to escribe
C24_Witness ==
    /\ Crawling
    /\ run.batch = <<MOld, MNew>>
    /\ run.used = << <<1, "">> >>
    /\ run.need = <<>>
    /\ run.c = 2


\* C25: the chained List calls of a crawl run never issue List of a source
\* with a token already used for that source earlier in the same run.
C25_NoTokenUsedTwice ==
    Crawling =>
        \A i, j \in DOMAIN run.used : i < j => run.used[i] # run.used[j]

\* the step on which the run returns while its sources are being listed
ListingEnds == Crawling /\ run.pc \in {"wait", "list"} /\ ~Crawling'

\* C26: if a List call fails for a source during a crawl run,
\* processMeetings returns an error, no meeting listed in this run is
\* fetched or saved, and nothing is written to the store.
C26_ListErrorAbortsRun ==
    /\ [](Crawling => run.lerr = "")
    /\ [][(Crawling /\ run.pc \in {"wait", "list"}) =>
            /\ db' = db
            /\ tx' = tx
            /\ run.fetched = <<>> /\ run.saved = <<>>
            /\ ListingEnds =>
                    /\ call'.op = "processMeetings"
                    /\ call'.ret = "error"
                    /\ call'.run.fetched = <<>>
                    /\ call'.run.saved = <<>>]_vars

\* the second page of halifax failed after the first had enqueued meetings:
\* the run returned the error and the store is as it was
C26_Witness ==
    /\ call.op = "processMeetings"
    /\ call.ret = "error"
    /\ call.err = "listing meetings"
    /\ call.run.used = << <<1, "">>, <<1, "p2">> >>
    /\ Len(call.run.need) = 2
    /\ call.run.fetched = <<>>
    /\ db = initDB

\* <<1, ..., n>>
Upto(n) == [i \in 1..n |-> i]

\* the meeting is committed as observed at time t
CommittedAt(s, m, t) ==
    \E r \in Rows(s.meetings) : r.id = m.ID /\ r.last_observed = t

\* the step on which the run returns from its queue before the queue's end
QueueFails ==
    /\ Crawling
    /\ run.pc \in {"queue", "agenda", "save"}
    /\ run.k <= Len(run.need)
    /\ ~Crawling'

\* C27: the crawl queue is processed strictly in order and fail-fast: if
\* processing queued meeting k fails, processMeetings returns an error, no
\* meeting after k is fetched or saved in this run, and every meeting
\* before k stays committed.
C27_QueueIsFailFast ==
    /\ [](Crawling =>
            /\ run.saved = Upto(run.k - 1)
            /\ run.fetched \in {Upto(run.k - 1), Upto(run.k)}
            /\ run.k <= Len(run.need) + 1
            /\ \A j \in 1..(run.k - 1) : CommittedAt(db, run.need[j].m, now))
    /\ [][QueueFails =>
            /\ call'.ret \in {"error", "crashed"}
            /\ db' = db
            /\ \A j \in 1..(run.k - 1) : CommittedAt(db', run.need[j].m, now)]_vars

\* the agenda of the second queued meeting could not be fetched: the run
\* returned the error, the first meeting is committed, the second has no row
C27_Witness ==
    /\ call.op = "processMeetings"
    /\ call.ret = "error"
    /\ call.err = "fetching agenda"
    /\ call.run.k = 2
    /\ call.run.saved = <<1>>
    /\ call.run.fetched = <<1, 2>>
    /\ Len(call.run.need) = 2
    /\ CommittedAt(db, call.run.need[1].m, now)
    /\ \A r \in Rows(db.meetings) : r.id # call.run.need[2].m.ID

\* the steps on which a request is sent: List, Agenda, the fetch of a document
ListRequest == Crawling /\ run.pc = "list" /\ run' # run

AgendaRequest == Crawling /\ run.pc = "agenda" /\ run' # run

DocumentRequest ==
    /\ call.op = "processURL"
    /\ call.pc = "fetch"
    /\ call'.pc \in {"saveErr", "exists"}

\* C28: every outbound network call (each List call of either source, each
\* Agenda fetch, each external-document fetch) is preceded by its own wait
\* on the one shared rate limiter, so no two network calls are issued on a
\* single limiter token.
C28_EveryRequestWaits ==
    [][/\ ListRequest => run.permit /\ (Crawling' => ~run'.permit)
       /\ AgendaRequest => run.permit /\ (Crawling' => ~run'.permit)
       /\ DocumentRequest => call.permit /\ ~call'.permit]_vars

\* three List calls and one Agenda fetch were made in this run, and the
\* leave given by the last wait is used up
C28_Witness ==
    /\ Crawling
    /\ run.pc = "save"
    /\ Len(run.used) = 3
    /\ run.fetched = <<1>>
    /\ ~run.permit

\* the run is about to return nil, having started on an empty store and
\* listed one meeting, whose agenda had one link on the document hosts
OneMeetingCrawled ==
    /\ Crawling
    /\ run.pc = "queue"
    /\ run.k > Len(run.need)
    /\ run.fromEmpty
    /\ run.listed = 1
    /\ Len(run.need) = 1
    /\ Cardinality({i \in DOMAIN run.links : run.links[i].docs}) = 1

\* the store after that crawl, before or after its one URL is processed
OneMeetingStore(s) ==
    /\ Len(s.meetings) = 1
    /\ Len(s.meeting_versions) = 1
    /\ Len(s.meeting_agenda_content) = 1
    /\ Len(s.external_content_urls) = 1

\* the pipeline has processed a URL whose fetch returned a PDF from which
\* text was extracted
PDFProcessed ==
    /\ ProcessURLReturnedOK
    /\ call.ferr = ""
    /\ call.uc.contentType = "application/pdf"
    /\ call.perr = ""

\* C29: starting from an empty store, if a source lists one meeting dated
\* within the cutoff whose agenda contains one link to a PDF on the document
\* hosts, then after the crawl there are exactly 1 Meeting, 1 MeetingVersion,
\* 1 AgendaContent and 1 unfetched ExternalContentURL, and after the pipeline
\* has fetched the PDF and extracted its text there is exactly 1
\* ExternalContent row holding the extracted text and the URL row is fetched
\* with no error.
C29_OneMeetingEndToEnd ==
    /\ OneMeetingCrawled =>
            /\ OneMeetingStore(db)
            /\ db.external_content_urls[1].fetched = NullNum
            /\ db.external_content = <<>>
    /\ (PDFProcessed /\ OneMeetingStore(db)) =>
            /\ Len(db.external_content) = 1
            /\ db.external_content[1].text = call.c.text
            /\ call.c.text # ""
            /\ db.external_content_urls[1].fetched = call.now
            /\ db.external_content_urls[1].error = NULL
            /\ db.external_content_urls[1].external_content_id
                    = db.external_content[1].id

\* the one URL of the one meeting crawled has been fetched and its text stored
C29_Witness ==
    /\ PDFProcessed
    /\ OneMeetingStore(db)
    /\ Len(db.external_content) = 1
    /\ db.external_content[1].text # ""
    /\ db.external_content_urls[1].fetched # NullNum
    /\ db.external_content_urls[1].error = NULL


----------------------------------------------------------------------------
(* Properties of saveMeetingURLs *)

\* C31: for each discovered URL of a saved agenda, saveMeeting ensures one
\* ExternalContentURL row and a (meeting, agenda-content, URL) link row
\* exist; a URL row that already exists is left as it is, a new one carries
\* the observedAt of this save as added and is unfetched, and no later step
\* changes the added of a URL row.
C31_URLRegisteredOnce ==
    [][/\ \A i \in DOMAIN db.external_content_urls :
            /\ i \in DOMAIN db'.external_content_urls
            /\ db'.external_content_urls[i].url = db.external_content_urls[i].url
            /\ db'.external_content_urls[i].added = db.external_content_urls[i].added
       /\ SaveCommits =>
            /\ Extends(db'.external_content_urls, db.external_content_urls)
            /\ \A u \in Range(call.agenda.ContentURLs) :
                /\ Cardinality({i \in DOMAIN db'.external_content_urls :
                                    db'.external_content_urls[i].url = u}) = 1
                /\ [meeting_id |-> call.m.ID, agenda_content_id |-> call.contentID,
                    external_content_url |-> u]
                        \in Rows(db'.meeting_external_content_urls)
            /\ \A i \in DOMAIN db'.external_content_urls \ DOMAIN db.external_content_urls :
                /\ db'.external_content_urls[i].url \in Range(call.agenda.ContentURLs)
                /\ db'.external_content_urls[i].added = call.observed
                /\ db'.external_content_urls[i].fetched = NullNum]_vars

\* a save has committed that found u1 again, after u1 was discovered by an
\* earlier save and fetched by the pipeline: its row still has the earlier
\* added and its fetched time
C31_Witness ==
    /\ SaveReturnedOK
    /\ "u1" \in Range(call.agenda.ContentURLs)
    /\ \E r \in Rows(db.external_content_urls) :
            /\ r.url = "u1"
            /\ r.added < call.observed
            /\ r.fetched # NullNum
    /\ \E l \in Rows(db.meeting_external_content_urls) :
            /\ l.meeting_id = call.m.ID
            /\ l.agenda_content_id = call.contentID
            /\ l.external_content_url = "u1"


----------------------------------------------------------------------------
(* Properties of the temporary files *)

\* processPDF has returned
PDFReturned == call.op = "processPDF" /\ call.pc = "done"

\* the tools processPDF has run so far, in order
ToolsRun == [i \in DOMAIN call.invoked |-> call.invoked[i].tool]

\* C32: on every exit path of processPDF (success, failure of
\* rasterization or OCR or reading, timeout of a tool), the temporary
\* directory and the page files in it no longer exist when it returns; and
\* the directory exists only between MkdirTemp and the return.
C32_TempDirRemovedOnReturn ==
    /\ PDFReturned => ~call.tdExists /\ call.td = {}
    /\ (call.op = "processPDF" /\ call.td # {}) => call.tdExists
    /\ (call.op = "processPDF" /\ call.pc \in {"pdftoppm", "tesseract", "read"})
            => call.tdExists

\* tesseract failed on the second page, after pdftoppm had written the page
\* images and tesseract the text of the first page: nothing is left
C32_Witness ==
    /\ PDFReturned
    /\ call.err = "tesseract"
    /\ ToolsRun = <<"pdfinfo", "pdftotext", "pdftoppm", "tesseract", "tesseract">>
    /\ ~call.tdExists
    /\ call.td = {}


----------------------------------------------------------------------------
(* Properties of the transaction of processURL *)

\* processURL is between db.Begin and the return of tx.Commit
InURLTransaction ==
    call.op = "processURL" /\ call.pc \in {"begin", "saveContent", "update", "commit"}

\* this step is the successful commit of the processURL call in flight
URLCommits ==
    /\ call.op = "processURL"
    /\ call.pc = "commit"
    /\ call'.pc = "done"
    /\ call'.ret = "ok"

\* C33: for one URL, the new ExternalContent row, its search-index row and
\* the URL row's update are committed together or not at all: only the
\* successful commit changes the committed store, and it leaves the URL row
\* fetched and referencing a stored content row; if a statement or the
\* commit fails no ExternalContent row and no index row remain and the URL
\* stays unfetched; so every stored content row is referenced by a fetched
\* URL row.
C33_ContentAndURLCommitTogether ==
    /\ [](\A c \in Rows(db.external_content) :
            \E r \in Rows(db.external_content_urls) :
                r.external_content_id = c.id /\ r.fetched # NullNum)
    /\ [][InURLTransaction =>
            IF URLCommits
            THEN /\ ContentRows(db', call.c.id) # {}
                 /\ URLRow(db', call.u).fetched = call.now
                 /\ URLRow(db', call.u).external_content_id = call.c.id
            ELSE /\ db' = db
                 /\ call'.pc = "done" =>
                        /\ tx' = NoTx
                        /\ URLRow(db', call.u).fetched = NullNum
                        /\ ~call.exists => ContentRows(db', call.c.id) = {}]_vars

\* a processURL call failed after its transaction had written: the store has
\* no content row, no index row and no fetched URL
C33_Witness ==
    /\ call.op = "processURL"
    /\ call.pc = "done"
    /\ call.ret = "error"
    /\ call.dirty
    /\ tx = NoTx
    /\ db.external_content = <<>>
    /\ db.external_content_search = <<>>
    /\ db.external_content_urls # <<>>
    /\ Terminal(db) = {}


----------------------------------------------------------------------------
(* Properties of the crawl queue *)

\* the meeting has no agenda URL
Bare(m) == URL(m.URLs, "agenda") = ""

\* the queue of the run is at a meeting without agenda URL
AtBareMeeting ==
    /\ Crawling
    /\ run.pc = "queue"
    /\ run.k <= Len(run.need)
    /\ Bare(run.need[run.k].m)

\* C34: a listed meeting that is at or after the cutoff, not fresh, and has
\* no agenda URL is enqueued, and stops the crawl run with an error when the
\* queue reaches it: no Agenda fetch is made for it, no Meeting,
\* MeetingVersion or content row is written for it, and no meeting queued
\* after it is processed.
C34_MissingAgendaURLStopsRun ==
    /\ [](/\ \A r \in Rows(db.meetings) : r.agenda_url # ""
          /\ \A v \in Rows(db.meeting_versions) : v.agenda_url # "")
    /\ [][/\ BatchListed =>
                \A i \in Consumed(run') :
                    (/\ Bare(run'.batch[i])
                     /\ \A r \in Rows(db.meetings) : r.id # run'.batch[i].ID)
                    => run'.batch[i] \in Enqueued
          /\ AtBareMeeting =>
                /\ ~Crawling'
                /\ call'.op = "processMeetings"
                /\ call'.ret = "error"
                /\ call'.err = "no agenda URL"
                /\ call'.run.fetched = Upto(run.k - 1)
                /\ call'.run.saved = Upto(run.k - 1)
                /\ db' = db
                /\ tx' = NoTx]_vars

\* the run stopped at a meeting without agenda URL that was second of three
\* in the queue: the first is committed, the second and third have no row and
\* no agenda was fetched for them
C34_Witness ==
    /\ call.op = "processMeetings"
    /\ call.ret = "error"
    /\ call.err = "no agenda URL"
    /\ Len(call.run.need) = 3
    /\ call.run.k = 2
    /\ call.run.fetched = <<1>>
    /\ CommittedAt(db, call.run.need[1].m, now)
    /\ \A j \in 2..3 : \A r \in Rows(db.meetings) : r.id # call.run.need[j].m.ID


----------------------------------------------------------------------------
(* Properties of the version history *)

\* the versions of meeting id
VersionsOf(s, id) == {v \in Rows(s.meeting_versions) : v.meeting_id = id}

\* the versions of meeting id with the greatest observed time
LatestVersions(s, id) ==
    {v \in VersionsOf(s, id) : \A w \in VersionsOf(s, id) : w.observed <= v.observed}

\* row and version carry the same (note, agenda URL, minutes URL, video URL,
\* content reference)
SameTuple(r, v) == \A c \in TupleCols : r[c] = v[c]

\* the row of meeting id
MeetingRow(s, id) == CHOOSE r \in Rows(s.meetings) : r.id = id

\* this step commits a save observed later than every earlier observation of
\* its meeting, whose versions have distinct observed times
LaterSaveCommits ==
    /\ SaveCommits
    /\ \A v \in VersionsOf(db, call.m.ID) : v.observed < call.observed
    /\ \A r \in Rows(db.meetings) : r.id = call.m.ID => r.last_observed < call.observed
    /\ \A v, w \in VersionsOf(db, call.m.ID) : v.observed = w.observed => v = w

\* C35: after any sequence of successful saveMeeting calls for one meeting
\* with increasing observedAt, the Meeting row's current (note, agenda URL,
\* minutes URL, video URL, content reference) equals the tuple of exactly one
\* MeetingVersion of that meeting; that version is the one with the greatest
\* observed time when the latest save added a version, and an earlier one
\* when the latest save repeated a tuple the meeting had before.
C35_RowMatchesItsOwnVersion ==
    /\ [](\A r \in Rows(db.meetings) : Cardinality(VersionsWith(db, r.id, r)) = 1)
    /\ [][LaterSaveCommits =>
            LET row == MeetingRow(db', call.m.ID)
                latest == LatestVersions(db', call.m.ID)
            IN  /\ Cardinality(latest) = 1
                /\ IF Len(db'.meeting_versions) > Len(db.meeting_versions)
                   THEN \A v \in latest : SameTuple(row, v) /\ v.observed = call.observed
                   ELSE /\ db'.meeting_versions = db.meeting_versions
                        /\ \E v \in VersionsOf(db, call.m.ID) : SameTuple(row, v)]_vars

\* the attributes went from A to B and back to A at increasing times: the row
\* carries A, the version with the greatest observed time carries B
C35_Witness ==
    /\ SaveReturnedOK
    /\ Cardinality(VersionsOf(db, call.m.ID)) = 2
    /\ \A v \in VersionsOf(db, call.m.ID) : v.observed < call.observed
    /\ \A v \in LatestVersions(db, call.m.ID) : ~SameTuple(MeetingRow(db, call.m.ID), v)
    /\ \E v \in VersionsOf(db, call.m.ID) : SameTuple(MeetingRow(db, call.m.ID), v)

\* C35 as stated: after a save observed later than all before, the row's
\* tuple is that of the version with the greatest observed time.
C35_RowMatchesLatestVersion ==
    [][LaterSaveCommits =>
        \A v \in LatestVersions(db', call.m.ID) :
            SameTuple(MeetingRow(db', call.m.ID), v)]_vars


----------------------------------------------------------------------------
(* Properties of the crawl queue: repeated listings *)

\* the IDs of the queued meetings at the positions in seq
QueuedIDs(seq) == [i \in DOMAIN seq |-> run.need[seq[i]].m.ID]

\* no value occurs at two positions of seq
NoRepeats(seq) == \A i, j \in DOMAIN seq : seq[i] = seq[j] => i = j

\* C36: within one crawl run, each meeting ID is fetched and saved at most
\* once, for every listing the sources may return, including a meeting that
\* appears in two batches or on two pages of the same run.
C36_EachMeetingOncePerRun ==
    Crawling => NoRepeats(QueuedIDs(run.fetched)) /\ NoRepeats(QueuedIDs(run.saved))


----------------------------------------------------------------------------
(* Properties of freshness across crawl runs *)

\* meeting m is dated within the 7 days before t, or later
DatedWithinWeek(m, t) == m.Event.Date >= AddDate(t, 0, -7)

\* the store holds m as observed less than 58 minutes before t
ObservedWithin58(s, m, t) ==
    \E r \in Rows(s.meetings) :
        /\ r.id = m.ID
        /\ r.last_observed # NullNum
        /\ t - r.last_observed < Hour - 2

\* the queue positions at which this run has fetched meeting m
FetchedByRun(m) == {i \in DOMAIN run.fetched : run.need[run.fetched[i]].m.ID = m.ID}

\* C37: a meeting dated within the last 7 days that a crawl run saved with
\* observation time t is reported fresh, and therefore neither fetched nor
\* saved, by any later crawl run that lists it before t + 58 minutes.
C37_SavedMeetingStaysFresh ==
    /\ [][BatchListed =>
            \A i \in Consumed(run') :
                (DatedWithinWeek(run'.batch[i], now) /\ ObservedWithin58(db, run'.batch[i], now))
                => run'.batch[i] \notin Enqueued]_vars
    /\ [](Crawling =>
            /\ \A i \in DOMAIN run.fetched : run.fetched[i] \in DOMAIN run.need
            /\ \A i \in DOMAIN run.saved : run.saved[i] \in DOMAIN run.need
            /\ \A j \in DOMAIN run.need :
                    (DatedWithinWeek(run.need[j].m, now) /\ FetchedByRun(run.need[j].m) = {})
                    => ~ObservedWithin58(db, run.need[j].m, now))

\* a run 57 minutes after the one that saved m1 has listed m1 in its last
\* batch and passed it over
C37_Witness ==
    /\ Crawling
    /\ \E i \in DOMAIN run.batch : run.batch[i] = MNew
    /\ \A j \in DOMAIN run.need : run.need[j].m.ID # MNew.ID
    /\ DatedWithinWeek(MNew, now)
    /\ \E r \in Rows(db.meetings) :
        r.id = MNew.ID /\ r.last_observed = now - (Hour - 3)


----------------------------------------------------------------------------
(* Properties of repeated pipeline runs *)

\* every registered URL is terminal
AllFetched == \A r \in Rows(db.external_content_urls) : r.fetched # NullNum

\* this step is the return of a pipeline run with nil: out of time, or at the
\* end of its batch
RunReturnsNil ==
    /\ run.active
    /\ ~run'.active
    /\ call' = call

\* C38: every pipeline run that passes the capability check, finds a
\* non-empty backlog and meets no store or limiter error moves at least one
\* URL to a terminal state, even when the time budget is exceeded; so with no
\* new URLs discovered, repeated pipeline runs eventually leave every
\* ExternalContentURL fetched.
C38_BacklogIsDrained ==
    /\ [][(RunReturnsNil /\ run.urls # <<>>) =>
            /\ run.i > 1
            /\ \A j \in 1..(run.i - 1) : run.urls[j] \in Terminal(db)]_vars
    /\ <>[]AllFetched

\* a run went out of time after its first URL and left the second in the backlog
C38_Witness ==
    /\ ~run.active
    /\ call.op = "processURL"
    /\ call.ret = "ok"
    /\ call.u \in Terminal(db)
    /\ \E r \in Rows(db.external_content_urls) : r.fetched = NullNum


----------------------------------------------------------------------------
(* Properties of the temporary file of processURL *)

\* the call of `call` is a processURL call that has returned
URLReturned == call.op = "processURL" /\ call.pc = "done" /\ call.ret \in {"ok", "error"}

\* C39: on every exit path of processURL, including a failure while the
\* response body is being copied after the temporary file was created, the
\* temporary file that holds the fetched body no longer exists when
\* processURL returns.
C39_TempFileRemovedOnReturn == URLReturned => ~call.tmp

====
